---- MODULE Spec2Model ----
(***************************************************************************)
(* Model of cloud_storage_clean: SafeDeleter.delete (deleter.py),          *)
(* BucketScanner.scan (scanner.py) and RateLimiter (utils/rate_limiter.py).*)
(* and the providers (providers/aliyun.py, providers/tencent.py).  The      *)
(* specifications SpecDelete, SpecScan, SpecRL, SpecRLFair and SpecProvider*)
(* share the module.                                                       *)
(***************************************************************************)
EXTENDS Integers, Sequences, FiniteSets, TLC

(***************************************************************************)
(* Bounds of the model                                                     *)
(***************************************************************************)
MaxFiles == 3
\* batches of at most this many keys get every vendor response enumerated
SmallBatch == 3

\* Bucket names used by the deleter's input lists
Buckets == {"b1", "b2"}

\* Configured batch sizes paired with the small input lists
SmallBatchSizes == {-1, 0, 1, 2, 3}

\* (number of files of one bucket, configured batch size) of the bulk inputs
BulkScenarios == {<<250, 100>>, <<1001, 1000>>, <<1001, 2000>>}

\* Answers typed at the confirmation prompt
Responses == {"yes", "y", "YES", "Y", "Yes", "no", "", "n", "yes "}

\* Scanner: buckets and objects the provider enumerates during one scan
MaxBuckets == 2
MaxObjects == 2

\* Bucket names, object keys and patterns, as sequences of characters
BucketNames == {<<"a">>, <<"b">>, <<"b", "a">>}
ObjectKeys == {<<"a", "l">>, <<"d", "l">>}
RegexPatterns == {<<"a">>, <<"^", "a">>, <<"[">>}
GlobPatterns == {<<"*", "l">>, <<"a", "?">>, <<>>, <<"/", "*">>}
Times == {1, 2}
TypeKeys == {<<"b", ".", "t", ".", "g">>, <<"d", ".", "x", "/", "M">>, <<".", "h">>}
Sizes == {1, 2}

\* RateLimiter: threads sharing one limiter, largest capacity, largest
\* number of tokens asked for, and the horizon of the clock
Threads == {"t1", "t2"}
MaxCap == 2
MaxN == 2
MaxTime == 2
\* ceiling of the recorded allowance
MaxAllowance == MaxCap + MaxTime

\* Providers: objects of a listed bucket, length of a small key list, and
\* vendor requests after which no further call is started
MaxListed == 3
MaxBatchKeys == 2
MaxRequests == 3

\* Error text of an exception raised by provider.batch_delete
ErrText == "Batch delete failed: API error"

(***************************************************************************)
(* Helpers                                                                 *)
(***************************************************************************)
Min(a, b) == IF a <= b THEN a ELSE b

\* sequences over S of length 0..n
SeqsUpTo(S, n) == UNION {[1..k -> S] : k \in 0..n}

\* str.lower() on the answers of Responses
Lower(s) ==
    CASE s = "YES" -> "yes"
      [] s = "Yes" -> "yes"
      [] s = "Y"   -> "y"
      [] OTHER     -> s

(***************************************************************************)
(* SafeDeleter: state                                                      *)
(***************************************************************************)
VARIABLES
    files,              \* delete(files, ...): the input list of FileInfo
    batch_size,         \* the batch_size passed to SafeDeleter.__init__
    dry_run,            \* self.dry_run
    skip_confirmation,  \* delete(..., skip_confirmation)
    provider,           \* which concrete provider self.provider is
    phase,              \* position of the generator
    summary,            \* the DeletionSummary, NoSummary before create_summary
    displayed,          \* display_summary has printed the summary
    prompts,            \* number of confirm_deletion calls
    response,           \* the answer read by confirm_deletion
    groups,             \* files_by_bucket, in dict insertion order
    gi,                 \* index of the bucket being deleted
    bi,                 \* i of range(0, len(bucket_files), batch_size)
    pending,            \* results of the current batch not yet yielded
    atYield,            \* generator is suspended at a yield
    yielded,            \* results handed to the consumer so far
    calls,              \* provider.batch_delete calls made so far
    batches,            \* batches the loop has processed so far: [bucket, keys]
    raisedAt,           \* set of call indexes whose batch_delete raised
    total_success,
    total_failed

dvars == <<files, batch_size, dry_run, skip_confirmation, provider, phase,
           summary, displayed, prompts, response, groups, gi, bi, pending,
           atYield, yielded, calls, batches, raisedAt, total_success, total_failed>>

(***************************************************************************)
(* BucketScanner.scan: state                                               *)
(***************************************************************************)
VARIABLES
    bucket_pattern,     \* deletion_filter.bucket_pattern, a sequence of characters
    file_pattern,       \* deletion_filter.file_pattern
    before_date,        \* deletion_filter.before_date: [t, aware]
    spc,                \* position of the scan generator
    cur_bucket,         \* bucket_info.name of the bucket being listed
    seen_buckets,       \* bucket names list_buckets has produced so far
    seen_objects,       \* FileInfo records list_files has produced so far
    listed,             \* bucket names list_files was called with
    scanned,            \* FileInfo records yielded to the consumer
    scan_error,         \* the exception that ended the scan, "none" if none
    tz_objects,         \* the provider's last_modified values carry a timezone
    mode,               \* the generator running: "scan" or "scan_file_types"
    lb_calls,           \* calls of self.provider.list_buckets made so far
    cur_pages,          \* scan: pages the current list_files call has fetched
    seen_page,          \* scan: for each object seen, the page that held it
    raised,             \* the exception the provider raised, "none" if none
    counts,             \* scan_file_types: counts, a defaultdict(int)
    sizes,              \* scan_file_types: sizes, a defaultdict(int)
    to_yield,           \* scan_file_types: extensions of sorted(counts.keys())
                        \* not yet yielded
    summaries           \* scan_file_types: FileTypeSummary records yielded

pgvars == <<lb_calls, cur_pages, seen_page>>
tyvars == <<counts, sizes, to_yield, summaries>>
svars == <<bucket_pattern, file_pattern, before_date, spc, cur_bucket,
           seen_buckets, seen_objects, listed, scanned, scan_error, tz_objects,
           mode, raised, pgvars, tyvars>>

(***************************************************************************)
(* RateLimiter: state.  Time is counted in refill intervals of 1/rate      *)
(* seconds, so that elapsed * rate is the number of ticks elapsed.         *)
(***************************************************************************)
VARIABLES
    capacity,           \* self.capacity
    tokens,             \* self.tokens
    last_update,        \* self.last_update
    lock,               \* self.lock: the thread holding it, or "free"
    now,                \* time.time(), the wall clock
    tpc,                \* position of each thread in acquire / try_acquire
    call,               \* each thread's current call: [op, n]
    sleep_left,         \* ticks left of each thread's time.sleep(wait_time)
    result,             \* what each thread's last call returned
    allowance           \* history: capacity + rate * (time elapsed since
                        \* __init__) - tokens granted so far, recorded up to
                        \* MaxAllowance (a lower bound of it beyond that)

rvars == <<capacity, tokens, last_update, lock, now, tpc, call, sleep_left, result,
           allowance>>

(***************************************************************************)
(* A provider (AliyunProvider or TencentProvider): state.  Objects of a    *)
(* bucket are numbered in the vendor's order; a marker is the number of    *)
(* the last object of a page, 0 standing for the empty marker.             *)
(***************************************************************************)
VARIABLES
    pkind,              \* "aliyun" or "tencent"
    ppc,                \* position of the provider's current call
    bucket_regions,     \* keys of self._bucket_regions / self._bucket_endpoints
    acquired,           \* self.rate_limiter.acquire() calls made so far
    requested,          \* vendor requests sent so far
    client,             \* region / endpoint the current call's client talks to
    lb_pending,         \* list_buckets: buckets of the response not yet yielded
    lb_truncated,       \* list_buckets: the response's is_truncated / IsTruncated
    lb_yielded,         \* list_buckets: buckets yielded so far
    nobjects,           \* list_files: number of objects the vendor holds
    marker,             \* list_files: marker
    has_more,           \* list_files: has_more
    contents,           \* list_files: objects of the page not yet yielded
    reply,              \* list_files: the last page's IsTruncated and NextMarker
    lf_yielded,         \* list_files: objects yielded so far
    pages,              \* list_files: page requests of this call
    bd_bucket,          \* batch_delete: bucket
    bd_keys,            \* batch_delete: keys
    answer,             \* batch_delete: the vendor's <<deleted, errors>>
    results,            \* batch_delete: results
    bd_out,             \* batch_delete: "returned" or the exception raised
    vfail,              \* the failure the vendor answered the last request with
    perr,               \* the exception the current call raised for it
    located,            \* buckets list_buckets yielded from a record with a location
    lf_bucket,          \* list_files: bucket
    nested              \* list_files runs while list_buckets is suspended at its yield

\* create_summary and create_deletion_summary, called on their own
VARIABLES
    sm_files,           \* files: the list of FileInfo passed in
    sm_provider,        \* provider: the name passed to create_deletion_summary
    sm_pc,              \* which of the two functions have returned
    sm_summary,         \* the DeletionSummary create_summary returned
    sm_dict             \* the dict create_deletion_summary returned

lbvars == <<lb_pending, lb_truncated, lb_yielded>>
lfvars == <<nobjects, marker, has_more, contents, reply, lf_yielded, pages>>
bdvars == <<bd_bucket, bd_keys, answer, results, bd_out>>
errvars == <<vfail, perr>>
regvars == <<located, lf_bucket, nested>>
pvars == <<pkind, ppc, bucket_regions, acquired, requested, client, lbvars,
           lfvars, bdvars, errvars, regvars>>

mvars == <<sm_files, sm_provider, sm_pc, sm_summary, sm_dict>>

vars == <<dvars, svars, rvars, pvars, mvars>>

\* FileInfo of the i-th input, keyed by its position; delete reads size and
\* provider for the summary only
MkFile(b, i) == [bucket |-> b, key |-> i, size |-> 1, provider |-> "tencent"]

\* the input lists: every list of up to MaxFiles files over Buckets
SmallInputs == {[i \in DOMAIN bs |-> MkFile(bs[i], i)] : bs \in SeqsUpTo(Buckets, MaxFiles)}

BulkInput(n) == [i \in 1..n |-> MkFile("b1", i)]

\* self.batch_size = min(batch_size, 1000)
MaxKeys == 1000
EffBatchNoCap(cfg) == cfg
EffBatch(cfg) == Min(cfg, MaxKeys)

(***************************************************************************)
(* create_summary                                                          *)
(***************************************************************************)
\* value of the local variable summary before it is assigned
NoSummary ==
    [total_files |-> -1, total_size |-> -1, files_by_bucket |-> [b \in {} |-> 0],
     size_by_bucket |-> [b \in {} |-> 0], provider |-> "none"]

CountIn(fs, b) == Cardinality({i \in DOMAIN fs : fs[i].bucket = b})

\* sum of a list of numbers
RECURSIVE SumSeq(_)
SumSeq(q) ==
    IF q = <<>> THEN 0
    ELSE IF Len(q) = 1 THEN q[1]
    ELSE LET h == Len(q) \div 2
         IN  SumSeq(SubSeq(q, 1, h)) + SumSeq(SubSeq(q, h + 1, Len(q)))

\* the bytes the loop adds up for bucket b
SizeIn(fs, b) ==
    LET InBucket(f) == f.bucket = b
        own == SelectSeq(fs, InBucket)
    IN  SumSeq([i \in DOMAIN own |-> own[i].size])

\* the statistics both summary functions accumulate in their loop
Totals(fs) ==
    LET present == {fs[i].bucket : i \in DOMAIN fs}
    IN  [total_files |-> Len(fs),
         total_size |-> SumSeq([i \in DOMAIN fs |-> fs[i].size]),
         files_by_bucket |-> [b \in present |-> CountIn(fs, b)],
         size_by_bucket |-> [b \in present |-> SizeIn(fs, b)]]

\* every bucket gets the bytes of the whole list
create_summaryWholeSize(fs) ==
    LET t == Totals(fs)
    IN  [total_files |-> t.total_files,
         total_size |-> t.total_size,
         files_by_bucket |-> t.files_by_bucket,
         size_by_bucket |-> [b \in DOMAIN t.size_by_bucket |-> t.total_size],
         provider |-> IF fs # <<>> THEN fs[1].provider ELSE "unknown"]

create_summary(fs) ==
    LET t == Totals(fs)
    IN  [total_files |-> t.total_files,
         total_size |-> t.total_size,
         files_by_bucket |-> t.files_by_bucket,
         size_by_bucket |-> t.size_by_bucket,
         provider |-> IF fs # <<>> THEN fs[1].provider ELSE "unknown"]

\* scanner.create_deletion_summary: the same loop, the provider as passed in
create_deletion_summary(fs, p) ==
    LET t == Totals(fs)
    IN  [total_files |-> t.total_files,
         total_size |-> t.total_size,
         files_by_bucket |-> t.files_by_bucket,
         size_by_bucket |-> t.size_by_bucket,
         provider |-> p]

(***************************************************************************)
(* Grouping by bucket (dict insertion order = order of first appearance)   *)
(***************************************************************************)
FirstIndex(fs, b) ==
    CHOOSE i \in DOMAIN fs :
        fs[i].bucket = b /\ \A j \in 1..(i - 1) : fs[j].bucket # b

BucketOrder(fs) ==
    LET present == {fs[i].bucket : i \in DOMAIN fs}
        rank(b) == Cardinality({c \in present : FirstIndex(fs, c) < FirstIndex(fs, b)}) + 1
    IN  [k \in 1..Cardinality(present) |-> CHOOSE b \in present : rank(b) = k]

\* a mis-grouping that keeps the input order and splits on every bucket change
GroupFilesRuns(fs) ==
    LET starts == {i \in DOMAIN fs : i = 1 \/ fs[i].bucket # fs[i - 1].bucket}
        nth(k) == CHOOSE i \in starts : Cardinality({j \in starts : j < i}) = k - 1
        stop(i) == IF \E j \in starts : j > i
                   THEN (CHOOSE j \in starts : j > i /\ \A l \in starts : l > i => j <= l) - 1
                   ELSE Len(fs)
    IN  [k \in 1..Cardinality(starts) |->
            [bucket |-> fs[nth(k)].bucket, files |-> SubSeq(fs, nth(k), stop(nth(k)))]]

GroupFiles(fs) ==
    LET order == BucketOrder(fs)
    IN  [k \in DOMAIN order |->
            [bucket |-> order[k],
             files  |-> SelectSeq(fs, LAMBDA f : f.bucket = order[k])]]

(***************************************************************************)
(* Providers' batch_delete, given the vendor's answer                      *)
(***************************************************************************)
Result(b, k, ok, err) == [bucket |-> b, key |-> k, success |-> ok, error |-> err]

\* a batch_delete that reports the deleted keys only
AliyunResultsDeletedOnly(b, keys, deleted) ==
    LET oks == SelectSeq(keys, LAMBDA k : k \in deleted)
    IN  [i \in DOMAIN oks |-> Result(b, oks[i], TRUE, "none")]

\* AliyunProvider.batch_delete: one result per key, in request order
AliyunResults(b, keys, deleted) ==
    [i \in DOMAIN keys |->
        IF keys[i] \in deleted
        THEN Result(b, keys[i], TRUE, "none")
        ELSE Result(b, keys[i], FALSE, "Key not in deleted list")]

\* TencentProvider.batch_delete: the vendor's errors, then the deleted keys
TencentResults(b, keys, deleted, errors) ==
    LET errs == SelectSeq(keys, LAMBDA k : k \in errors)
        oks  == SelectSeq(keys, LAMBDA k : k \in deleted)
    IN  [i \in DOMAIN errs |-> Result(b, errs[i], FALSE, "Code: Message")]
        \o [i \in DOMAIN oks |-> Result(b, oks[i], TRUE, "none")]

\* the vendor's possible answers to a delete request: <<deleted, errors>>
VendorAnswers(keys) ==
    LET ks == {keys[i] : i \in DOMAIN keys}
    IN  IF Len(keys) <= SmallBatch
        THEN {<<d, e>> : d \in SUBSET ks, e \in SUBSET ks} \ {a \in (SUBSET ks) \X (SUBSET ks) : a[1] \cap a[2] # {}}
        ELSE {<<ks, {}>>}

batch_delete(p, b, keys, ans) ==
    IF p = "aliyun" THEN AliyunResults(b, keys, ans[1])
    ELSE TencentResults(b, keys, ans[1], ans[2])

(***************************************************************************)
(* Values of the variables of a component that is not running              *)
(***************************************************************************)
NoDate == [t |-> 0, aware |-> TRUE]

ScannerUnused ==
    /\ bucket_pattern = <<>>
    /\ file_pattern = <<>>
    /\ before_date = NoDate
    /\ spc = "unused"
    /\ cur_bucket = <<>>
    /\ seen_buckets = <<>>
    /\ seen_objects = <<>>
    /\ listed = <<>>
    /\ scanned = <<>>
    /\ scan_error = "none"
    /\ tz_objects = TRUE
    /\ mode = "none"
    /\ raised = "none"
    /\ lb_calls = 0
    /\ cur_pages = 0
    /\ seen_page = <<>>
    /\ counts = <<>>
    /\ sizes = <<>>
    /\ to_yield = <<>>
    /\ summaries = <<>>

LimiterUnused ==
    /\ capacity = 0
    /\ tokens = 0
    /\ last_update = 0
    /\ lock = "free"
    /\ now = 0
    /\ tpc = [t \in Threads |-> "unused"]
    /\ call = [t \in Threads |-> [op |-> "none", n |-> 0]]
    /\ sleep_left = [t \in Threads |-> 0]
    /\ result = [t \in Threads |-> "none"]
    /\ allowance = 0

\* the locals of list_buckets, list_files and batch_delete outside a call
NoReply == [truncated |-> "none", next |-> 0]

LBLocals ==
    /\ lb_pending = <<>>
    /\ lb_truncated = FALSE
    /\ lb_yielded = <<>>

LFLocals ==
    /\ nobjects = 0
    /\ marker = 0
    /\ has_more = FALSE
    /\ contents = <<>>
    /\ reply = NoReply
    /\ lf_yielded = <<>>
    /\ pages = 0

ErrLocals == vfail = "none" /\ perr = "none"

SummaryUnused ==
    /\ sm_files = <<>>
    /\ sm_provider = "none"
    /\ sm_pc = "unused"
    /\ sm_summary = NoSummary
    /\ sm_dict = NoSummary

RegLocals == located = {} /\ lf_bucket = "none" /\ nested = FALSE

BDLocals ==
    /\ bd_bucket = "none"
    /\ bd_keys = <<>>
    /\ answer = <<{}, {}>>
    /\ results = <<>>
    /\ bd_out = "none"

ProviderUnused ==
    /\ pkind = "none"
    /\ ppc = "unused"
    /\ bucket_regions = {}
    /\ acquired = 0
    /\ requested = 0
    /\ client = "none"
    /\ LBLocals
    /\ LFLocals
    /\ BDLocals
    /\ ErrLocals
    /\ RegLocals

(***************************************************************************)
(* SafeDeleter.delete, one action per step of the generator                *)
(***************************************************************************)
DeleteInit ==
    /\ ScannerUnused
    /\ LimiterUnused
    /\ ProviderUnused
    /\ SummaryUnused
    /\ \/ /\ files \in SmallInputs
          /\ batch_size \in SmallBatchSizes
          /\ skip_confirmation \in BOOLEAN
          /\ provider \in {"aliyun", "tencent"}
       \/ \E sc \in BulkScenarios :
            /\ files = BulkInput(sc[1])
            /\ batch_size = sc[2]
            /\ skip_confirmation = TRUE
            /\ provider = "aliyun"
    /\ dry_run \in BOOLEAN
    /\ phase = "Idle"
    /\ summary = NoSummary
    /\ displayed = FALSE
    /\ prompts = 0
    /\ response = "none"
    /\ groups = <<>>
    /\ gi = 0
    /\ bi = 0
    /\ pending = <<>>
    /\ atYield = FALSE
    /\ yielded = <<>>
    /\ calls = <<>>
    /\ batches = <<>>
    /\ raisedAt = {}
    /\ total_success = 0
    /\ total_failed = 0

\* the early return left out: an empty list is summarized like any other
EmptyReturnMissing ==
    /\ phase = "Idle"
    /\ files = <<>>
    /\ summary' = create_summary(files)
    /\ displayed' = TRUE
    /\ phase' = "Summarized"
    /\ UNCHANGED <<svars, rvars, pvars, mvars>>
    /\ UNCHANGED <<files, batch_size, dry_run, skip_confirmation, provider,
                   prompts, response, groups, gi, bi, pending, atYield,
                   yielded, calls, batches, raisedAt, total_success, total_failed>>

\* if not files: return
EmptyReturn ==
    /\ phase = "Idle"
    /\ files = <<>>
    /\ phase' = "Done"
    /\ UNCHANGED <<svars, rvars, pvars, mvars>>
    /\ UNCHANGED <<files, batch_size, dry_run, skip_confirmation, provider,
                   summary, displayed, prompts, response, groups, gi, bi,
                   pending, atYield, yielded, calls, batches, raisedAt, total_success,
                   total_failed>>

\* summary = self.create_summary(files); self.display_summary(summary)
Summarize ==
    /\ phase = "Idle"
    /\ files # <<>>
    /\ summary' = create_summary(files)
    /\ displayed' = TRUE
    /\ phase' = "Summarized"
    /\ UNCHANGED <<svars, rvars, pvars, mvars>>
    /\ UNCHANGED <<files, batch_size, dry_run, skip_confirmation, provider,
                   prompts, response, groups, gi, bi, pending, atYield,
                   yielded, calls, batches, raisedAt, total_success, total_failed>>

\* an answer check that only looks for a "no"
AffirmativeLoose(r) == Lower(r) \notin {"no", "n"}

\* confirm_deletion: response.lower() in ("yes", "y")
Affirmative(r) == Lower(r) \in {"yes", "y"}

\* a dry run that takes the answer for granted and does not prompt
ConfirmLiveOnly(r) ==
    /\ phase = "Summarized"
    /\ ~skip_confirmation
    /\ prompts' = IF dry_run THEN prompts ELSE prompts + 1
    /\ response' = r
    /\ phase' = IF Affirmative(r) THEN "Confirmed" ELSE "Cancelled"
    /\ UNCHANGED <<svars, rvars, pvars, mvars>>
    /\ UNCHANGED <<files, batch_size, dry_run, skip_confirmation, provider,
                   summary, displayed, groups, gi, bi, pending, atYield,
                   yielded, calls, batches, raisedAt, total_success, total_failed>>

\* if not skip_confirmation: if not self.confirm_deletion(): return
Confirm(r) ==
    /\ phase = "Summarized"
    /\ ~skip_confirmation
    /\ prompts' = prompts + 1
    /\ response' = r
    /\ phase' = IF Affirmative(r) THEN "Confirmed" ELSE "Cancelled"
    /\ UNCHANGED <<svars, rvars, pvars, mvars>>
    /\ UNCHANGED <<files, batch_size, dry_run, skip_confirmation, provider,
                   summary, displayed, groups, gi, bi, pending, atYield,
                   yielded, calls, batches, raisedAt, total_success, total_failed>>

\* the return after a refused confirmation left out
StartDeletionNoGate ==
    /\ phase \in {"Confirmed", "Cancelled"} \/ (phase = "Summarized" /\ skip_confirmation)
    /\ groups' = GroupFiles(files)
    /\ gi' = 1
    /\ bi' = 0
    /\ phase' = "Deleting"
    /\ UNCHANGED <<svars, rvars, pvars, mvars>>
    /\ UNCHANGED <<files, batch_size, dry_run, skip_confirmation, provider,
                   summary, displayed, prompts, response, pending, atYield,
                   yielded, calls, batches, raisedAt, total_success, total_failed>>

\* "deletion_started"; files are grouped by bucket
StartDeletion ==
    /\ \/ phase = "Confirmed"
       \/ phase = "Summarized" /\ skip_confirmation
    /\ groups' = GroupFiles(files)
    /\ gi' = 1
    /\ bi' = 0
    /\ phase' = "Deleting"
    /\ UNCHANGED <<svars, rvars, pvars, mvars>>
    /\ UNCHANGED <<files, batch_size, dry_run, skip_confirmation, provider,
                   summary, displayed, prompts, response, pending, atYield,
                   yielded, calls, batches, raisedAt, total_success, total_failed>>

\* the generator is between two batches
BetweenBatches == phase = "Deleting" /\ pending = <<>>

\* a slice one key short of the range step
CurrentBatchShort ==
    LET bf == groups[gi].files
    IN  SubSeq(bf, bi + 1, Min(bi + EffBatch(batch_size) - 1, Len(bf)))

\* batch = bucket_files[i : i + self.batch_size]
CurrentBatch ==
    LET bf == groups[gi].files
    IN  SubSeq(bf, bi + 1, Min(bi + EffBatch(batch_size), Len(bf)))

Keys(batch) == [i \in DOMAIN batch |-> batch[i].key]

\* range(0, len(bucket_files), self.batch_size) has a next i
HasBatch ==
    /\ gi <= Len(groups)
    /\ EffBatch(batch_size) > 0
    /\ bi < Len(groups[gi].files)

\* range() with step 0 raises ValueError, outside the try block
RangeError ==
    /\ BetweenBatches
    /\ gi <= Len(groups)
    /\ EffBatch(batch_size) = 0
    /\ phase' = "Raised"
    /\ atYield' = FALSE
    /\ UNCHANGED <<svars, rvars, pvars, mvars>>
    /\ UNCHANGED <<files, batch_size, dry_run, skip_confirmation, provider,
                   summary, displayed, prompts, response, groups, gi, bi,
                   pending, yielded, calls, batches, raisedAt, total_success,
                   total_failed>>

\* the range of the current bucket is exhausted: next bucket
NextBucket ==
    /\ BetweenBatches
    /\ gi <= Len(groups)
    /\ EffBatch(batch_size) # 0
    /\ ~HasBatch
    /\ gi' = gi + 1
    /\ bi' = 0
    /\ atYield' = FALSE
    /\ UNCHANGED <<svars, rvars, pvars, mvars>>
    /\ UNCHANGED <<files, batch_size, dry_run, skip_confirmation, provider,
                   phase, summary, displayed, prompts, response, groups,
                   pending, yielded, calls, batches, raisedAt, total_success,
                   total_failed>>

\* a dry run that treats the rest of the bucket as one batch
DryRunBatchWholeBucket ==
    /\ BetweenBatches
    /\ HasBatch
    /\ dry_run
    /\ LET batch == SubSeq(groups[gi].files, bi + 1, Len(groups[gi].files))
       IN  /\ pending' = [i \in DOMAIN batch |->
                            Result(batch[i].bucket, batch[i].key, TRUE, "none")]
           /\ batches' = Append(batches, [bucket |-> groups[gi].bucket, keys |-> Keys(batch)])
    /\ bi' = Len(groups[gi].files)
    /\ atYield' = FALSE
    /\ UNCHANGED <<svars, rvars, pvars, mvars>>
    /\ UNCHANGED <<files, batch_size, dry_run, skip_confirmation, provider,
                   phase, summary, displayed, prompts, response, groups, gi,
                   yielded, calls, raisedAt, total_success, total_failed>>

\* dry run: results = [DeletionResult(file=f, success=True) for f in batch]
DryRunBatch ==
    /\ BetweenBatches
    /\ HasBatch
    /\ dry_run
    /\ pending' = [i \in DOMAIN CurrentBatch |->
                     Result(CurrentBatch[i].bucket, CurrentBatch[i].key, TRUE, "none")]
    /\ batches' = Append(batches, [bucket |-> groups[gi].bucket, keys |-> Keys(CurrentBatch)])
    /\ bi' = bi + EffBatch(batch_size)
    /\ atYield' = FALSE
    /\ UNCHANGED <<svars, rvars, pvars, mvars>>
    /\ UNCHANGED <<files, batch_size, dry_run, skip_confirmation, provider,
                   phase, summary, displayed, prompts, response, groups, gi,
                   yielded, calls, raisedAt, total_success, total_failed>>

\* a loop that sends the next batch while outcomes of the last one are
\* still to be yielded
LiveBatchEager ==
    /\ phase = "Deleting"
    /\ HasBatch
    /\ ~dry_run
    /\ Len(CurrentBatch) <= MaxKeys
    /\ \E ans \in VendorAnswers(Keys(CurrentBatch)) :
            pending' = pending \o batch_delete(provider, groups[gi].bucket, Keys(CurrentBatch), ans)
    /\ calls' = Append(calls, [bucket |-> groups[gi].bucket, keys |-> Keys(CurrentBatch)])
    /\ batches' = Append(batches, [bucket |-> groups[gi].bucket, keys |-> Keys(CurrentBatch)])
    /\ bi' = bi + EffBatch(batch_size)
    /\ atYield' = FALSE
    /\ UNCHANGED <<svars, rvars, pvars, mvars>>
    /\ UNCHANGED <<files, batch_size, dry_run, skip_confirmation, provider,
                   phase, summary, displayed, prompts, response, groups, gi,
                   yielded, raisedAt, total_success, total_failed>>

\* results = self.provider.batch_delete(bucket, keys) returns
LiveBatch ==
    /\ BetweenBatches
    /\ HasBatch
    /\ ~dry_run
    /\ Len(CurrentBatch) <= MaxKeys
    /\ \E ans \in VendorAnswers(Keys(CurrentBatch)) :
            pending' = batch_delete(provider, groups[gi].bucket, Keys(CurrentBatch), ans)
    /\ calls' = Append(calls, [bucket |-> groups[gi].bucket, keys |-> Keys(CurrentBatch)])
    /\ batches' = Append(batches, [bucket |-> groups[gi].bucket, keys |-> Keys(CurrentBatch)])
    /\ bi' = bi + EffBatch(batch_size)
    /\ atYield' = FALSE
    /\ UNCHANGED <<svars, rvars, pvars, mvars>>
    /\ UNCHANGED <<files, batch_size, dry_run, skip_confirmation, provider,
                   phase, summary, displayed, prompts, response, groups, gi,
                   yielded, raisedAt, total_success, total_failed>>

\* a raising batch that gives up the rest of its bucket
LiveBatchRaisesAbort ==
    /\ BetweenBatches
    /\ HasBatch
    /\ ~dry_run
    /\ pending' = [i \in DOMAIN CurrentBatch |->
                     Result(CurrentBatch[i].bucket, CurrentBatch[i].key, FALSE, ErrText)]
    /\ calls' = Append(calls, [bucket |-> groups[gi].bucket, keys |-> Keys(CurrentBatch)])
    /\ batches' = Append(batches, [bucket |-> groups[gi].bucket, keys |-> Keys(CurrentBatch)])
    /\ raisedAt' = raisedAt \cup {Len(calls) + 1}
    /\ bi' = Len(groups[gi].files)
    /\ atYield' = FALSE
    /\ UNCHANGED <<svars, rvars, pvars, mvars>>
    /\ UNCHANGED <<files, batch_size, dry_run, skip_confirmation, provider,
                   phase, summary, displayed, prompts, response, groups, gi,
                   yielded, total_success, total_failed>>

\* provider.batch_delete raises; except Exception: one failure per file
LiveBatchRaises ==
    /\ BetweenBatches
    /\ HasBatch
    /\ ~dry_run
    /\ LET text == IF Len(CurrentBatch) > MaxKeys
                   THEN "batch delete supports max 1000 keys"
                   ELSE ErrText
       IN  pending' = [i \in DOMAIN CurrentBatch |->
                         Result(CurrentBatch[i].bucket, CurrentBatch[i].key, FALSE, text)]
    /\ calls' = Append(calls, [bucket |-> groups[gi].bucket, keys |-> Keys(CurrentBatch)])
    /\ batches' = Append(batches, [bucket |-> groups[gi].bucket, keys |-> Keys(CurrentBatch)])
    /\ raisedAt' = raisedAt \cup {Len(calls) + 1}
    /\ bi' = bi + EffBatch(batch_size)
    /\ atYield' = FALSE
    /\ UNCHANGED <<svars, rvars, pvars, mvars>>
    /\ UNCHANGED <<files, batch_size, dry_run, skip_confirmation, provider,
                   phase, summary, displayed, prompts, response, groups, gi,
                   yielded, total_success, total_failed>>

\* count the next result of the batch and yield it
YieldNext ==
    /\ phase = "Deleting"
    /\ pending # <<>>
    /\ IF Head(pending).success
       THEN total_success' = total_success + 1 /\ UNCHANGED total_failed
       ELSE total_failed' = total_failed + 1 /\ UNCHANGED total_success
    /\ yielded' = Append(yielded, Head(pending))
    /\ pending' = Tail(pending)
    /\ atYield' = TRUE
    /\ UNCHANGED <<svars, rvars, pvars, mvars>>
    /\ UNCHANGED <<files, batch_size, dry_run, skip_confirmation, provider,
                   phase, summary, displayed, prompts, response, groups, gi,
                   bi, calls, batches, raisedAt>>

\* every bucket is done: "deletion_completed"
Finish ==
    /\ BetweenBatches
    /\ gi > Len(groups)
    /\ phase' = "Done"
    /\ atYield' = FALSE
    /\ UNCHANGED <<svars, rvars, pvars, mvars>>
    /\ UNCHANGED <<files, batch_size, dry_run, skip_confirmation, provider,
                   summary, displayed, prompts, response, groups, gi, bi,
                   pending, yielded, calls, batches, raisedAt, total_success,
                   total_failed>>

\* the consumer stops consuming: the generator is closed at its yield
Close ==
    /\ phase = "Deleting"
    /\ atYield
    /\ phase' = "Closed"
    /\ UNCHANGED <<svars, rvars, pvars, mvars>>
    /\ UNCHANGED <<files, batch_size, dry_run, skip_confirmation, provider,
                   summary, displayed, prompts, response, groups, gi, bi,
                   pending, atYield, yielded, calls, batches, raisedAt, total_success,
                   total_failed>>

DeleteNext ==
    \/ EmptyReturn
    \/ Summarize
    \/ \E r \in Responses : Confirm(r)
    \/ StartDeletion
    \/ RangeError
    \/ NextBucket
    \/ DryRunBatch
    \/ LiveBatch
    \/ LiveBatchRaises
    \/ YieldNext
    \/ Finish
    \/ Close

SpecDelete == DeleteInit /\ [][DeleteNext]_vars

(***************************************************************************)
(* Properties of SafeDeleter.delete                                        *)
(***************************************************************************)
\* the answers of Responses that confirm the deletion
YesAnswers == {"yes", "y", "YES", "Y", "Yes"}

\* the order of the phases of one invocation
PhaseSteps ==
    {<<"Idle", "Summarized">>, <<"Idle", "Done">>,
     <<"Summarized", "Confirmed">>, <<"Summarized", "Cancelled">>,
     <<"Confirmed", "Deleting">>,
     <<"Deleting", "Done">>, <<"Deleting", "Raised">>, <<"Deleting", "Closed">>}

\* C1: without skip_confirmation the summary is computed and displayed
\* before the prompt, no batch_delete call and no outcome exists before the
\* prompt has returned an affirmative answer, and the phases only move
\* forward: Idle, Summarized, Confirmed or Cancelled, Deleting, end.
C1_ConfirmationGate ==
    /\ [](~skip_confirmation =>
            /\ (prompts > 0 => displayed /\ summary.total_files = Len(files))
            /\ (phase = "Deleting" \/ calls # <<>> \/ yielded # <<>> \/ pending # <<>>
                    => prompts = 1 /\ response \in YesAnswers))
    /\ [][~skip_confirmation /\ phase' # phase => <<phase, phase'>> \in PhaseSteps]_vars

C1_Witness ==
    /\ ~skip_confirmation
    /\ phase = "Done"
    /\ prompts = 1
    /\ calls # <<>>
    /\ yielded # <<>>

\* C2: an answer that is not affirmative ends the invocation in Cancelled
\* with no outcome yielded and no batch_delete call, in live and dry-run
\* mode, and nothing happens after it.
C2_RefusalDeletesNothing ==
    /\ [](prompts > 0 /\ response \notin YesAnswers =>
            /\ phase = "Cancelled"
            /\ yielded = <<>>
            /\ pending = <<>>
            /\ calls = <<>>)
    /\ [][phase # "Cancelled"]_vars

C2_Witness ==
    /\ phase = "Cancelled"
    /\ response = "yes "
    /\ ~dry_run
    /\ Len(files) = MaxFiles

\* C3: a dry run never calls batch_delete and, once finished, has yielded
\* exactly one outcome per input file, all of them successful.
C3_DryRunOnePerFile ==
    dry_run =>
        /\ calls = <<>>
        /\ phase = "Done" =>
            /\ Len(yielded) = Len(files)
            /\ \A i \in DOMAIN yielded : yielded[i].success

\* C4 as claimed: in a dry run the i-th yielded outcome is for the i-th
\* input file.
C4_DryRunInputOrder ==
    dry_run =>
        \A i \in DOMAIN yielded :
            yielded[i].key = files[i].key /\ yielded[i].bucket = files[i].bucket

\* least input position of a file of bucket b
MinKey(b) ==
    CHOOSE i \in DOMAIN files :
        files[i].bucket = b /\ \A j \in DOMAIN files : files[j].bucket = b => i <= j

\* f comes before g when the input is grouped by bucket: buckets in order of
\* first appearance, input order within a bucket
GroupedBefore(f, g) ==
    IF f.bucket = g.bucket THEN f.key < g.key
    ELSE MinKey(f.bucket) < MinKey(g.bucket)

\* C4 amended: in a dry run the outcomes are yielded in input order within
\* each bucket, bucket after bucket in order of first appearance: every
\* yielded outcome is the input file that follows the previous one in that
\* grouped order.
C4_DryRunGroupedOrder ==
    [][dry_run /\ yielded' # yielded =>
        /\ Len(yielded') = Len(yielded) + 1
        /\ SubSeq(yielded', 1, Len(yielded)) = yielded
        /\ LET r == yielded'[Len(yielded')]
           IN  /\ r.key \in DOMAIN files
               /\ files[r.key].bucket = r.bucket
               /\ IF yielded = <<>>
                  THEN \A i \in DOMAIN files : ~GroupedBefore(files[i], r)
                  ELSE LET last == yielded[Len(yielded)]
                       IN  /\ GroupedBefore(last, r)
                           /\ \A i \in DOMAIN files :
                                ~(GroupedBefore(last, files[i]) /\ GroupedBefore(files[i], r))
    ]_vars

C4_Witness ==
    /\ dry_run
    /\ phase = "Done"
    /\ Len(yielded) = Len(files)
    /\ \E i \in DOMAIN yielded : yielded[i].key # files[i].key

\* the outcomes yielded for the keys of call c
YieldedFor(c) ==
    LET ks == {calls[c].keys[k] : k \in DOMAIN calls[c].keys}
    IN  SelectSeq(yielded, LAMBDA r : r.bucket = calls[c].bucket /\ r.key \in ks)

\* C5: in live mode a batch whose batch_delete raised gets exactly one
\* failed outcome with the error text per file, and the run still passes
\* every file of every batch and bucket to batch_delete.
C5_RaisingBatchDoesNotAbort ==
    phase = "Done" /\ ~dry_run /\ raisedAt # {} =>
        /\ \A c \in raisedAt :
            LET ys == YieldedFor(c)
            IN  /\ Len(ys) = Len(calls[c].keys)
                /\ {ys[j].key : j \in DOMAIN ys} = {calls[c].keys[k] : k \in DOMAIN calls[c].keys}
                /\ \A j \in DOMAIN ys : ~ys[j].success /\ ys[j].error = ErrText
        /\ {<<files[i].bucket, files[i].key>> : i \in DOMAIN files}
            \subseteq UNION {{<<calls[c].bucket, calls[c].keys[k]>> : k \in DOMAIN calls[c].keys}
                                : c \in DOMAIN calls}

C5_Witness ==
    /\ phase = "Done"
    /\ ~dry_run
    /\ Len(calls) = 3
    /\ raisedAt = {1}
    /\ \E i \in DOMAIN yielded : yielded[i].success

\* C6: no batch_delete call carries more than min(batch_size, 1000) keys.
C6_BatchCap ==
    \A c \in DOMAIN calls :
        /\ Len(calls[c].keys) <= batch_size
        /\ Len(calls[c].keys) <= 1000

C6_Witness ==
    /\ batch_size > 1000
    /\ \E c \in DOMAIN calls : Len(calls[c].keys) = 1000
    /\ Len(files) > 1000
    /\ phase = "Done"

\* C7: delete([]) yields nothing, prompts nothing, calls the provider never
\* and its only step is the return.
C7_EmptyInput ==
    /\ [](files = <<>> =>
            /\ phase \in {"Idle", "Done"}
            /\ yielded = <<>>
            /\ pending = <<>>
            /\ calls = <<>>
            /\ prompts = 0
            /\ ~displayed)
    /\ [][files = <<>> => phase' = "Done"]_vars

C7_Witness ==
    /\ files = <<>>
    /\ phase = "Done"

Ceil(n, b) == (n + b - 1) \div b

RECURSIVE SumOver(_, _)
SumOver(S, f) ==
    IF S = {} THEN 0
    ELSE LET x == CHOOSE y \in S : TRUE
         IN  f[x] + SumOver(S \ {x}, f)

\* number of input files of bucket b
FilesIn(b) == Cardinality({i \in DOMAIN files : files[i].bucket = b})

\* C8: a finished live delete with 1 <= B <= 1000 has made ceil(N_b/B)
\* calls for each bucket, all of B keys except the last of a bucket, which
\* has the remainder; the number of calls is the sum over the buckets.
C8_BatchCount ==
    phase = "Done" /\ ~dry_run /\ batch_size >= 1 /\ batch_size <= 1000 =>
        /\ Len(calls) = SumOver(Buckets, [b \in Buckets |-> Ceil(FilesIn(b), batch_size)])
        /\ \A b \in Buckets :
            LET cb == SelectSeq(calls, LAMBDA c : c.bucket = b)
            IN  /\ Len(cb) = Ceil(FilesIn(b), batch_size)
                /\ \A i \in DOMAIN cb :
                    Len(cb[i].keys) = IF i < Len(cb) THEN batch_size
                                      ELSE FilesIn(b) - batch_size * (Len(cb) - 1)

C8_Witness ==
    /\ phase = "Done"
    /\ ~dry_run
    /\ Len(files) = 250
    /\ batch_size = 100
    /\ Len(calls) = 3
    /\ Len(calls[1].keys) = 100
    /\ Len(calls[2].keys) = 100
    /\ Len(calls[3].keys) = 50

(***************************************************************************)
(* utils/validators.py                                                     *)
(***************************************************************************)
\* re.compile succeeds: the pattern has no unclosed bracket
RegexCompiles(p) == \A i \in DOMAIN p : p[i] # "["

\* validate_glob_pattern raises: empty pattern, or pattern starting with "/"
GlobInvalid(p) == IF p = <<>> THEN TRUE ELSE Head(p) = "/"

\* the pattern without its anchors
RegexCore(p) ==
    LET a == IF p # <<>> /\ Head(p) = "^" THEN Tail(p) ELSE p
    IN  IF a # <<>> /\ a[Len(a)] = "$" THEN SubSeq(a, 1, Len(a) - 1) ELSE a

RegexMatchAt(text, core, i) ==
    /\ i + Len(core) - 1 <= Len(text)
    /\ \A k \in DOMAIN core : core[k] = "." \/ core[k] = text[i + k - 1]

\* matches_regex: pattern.search(text) is not None (unanchored search)
matches_regex(text, p) ==
    LET atStart == p # <<>> /\ Head(p) = "^"
        rest == IF atStart THEN Tail(p) ELSE p
        atEnd == rest # <<>> /\ rest[Len(rest)] = "$"
        core == RegexCore(p)
    IN  \E i \in 1..(Len(text) + 1) :
            /\ RegexMatchAt(text, core, i)
            /\ atStart => i = 1
            /\ atEnd => i + Len(core) - 1 = Len(text)

\* matches_glob: fnmatch(text, pattern), the whole text against *, ? and literals
RECURSIVE matches_glob(_, _)
matches_glob(text, p) ==
    IF p = <<>> THEN text = <<>>
    ELSE IF Head(p) = "*"
         THEN \/ matches_glob(text, Tail(p))
              \/ text # <<>> /\ matches_glob(Tail(text), p)
         ELSE /\ text # <<>>
              /\ Head(p) = "?" \/ Head(p) = Head(text)
              /\ matches_glob(Tail(text), Tail(p))

(***************************************************************************)
(* BucketScanner.scan, one action per step of the generator                *)
(***************************************************************************)
DeleterUnused ==
    /\ files = <<>>
    /\ batch_size = 0
    /\ dry_run = FALSE
    /\ skip_confirmation = FALSE
    /\ provider = "none"
    /\ phase = "unused"
    /\ summary = NoSummary
    /\ displayed = FALSE
    /\ prompts = 0
    /\ response = "none"
    /\ groups = <<>>
    /\ gi = 0
    /\ bi = 0
    /\ pending = <<>>
    /\ atYield = FALSE
    /\ yielded = <<>>
    /\ calls = <<>>
    /\ batches = <<>>
    /\ raisedAt = {}
    /\ total_success = 0
    /\ total_failed = 0

\* the cutoffs a generator is started with: scan_file_types with the latest
\* time only, an earlier cutoff leaving it no object to count
Cutoffs(m) ==
    IF m = "scan" THEN Times
    ELSE {t \in Times : \A u \in Times : u <= t}

ScanInit ==
    /\ DeleterUnused
    /\ LimiterUnused
    /\ ProviderUnused
    /\ SummaryUnused
    /\ mode \in {"scan", "scan_file_types"}
    /\ bucket_pattern \in RegexPatterns
    /\ IF mode = "scan" THEN file_pattern \in GlobPatterns ELSE file_pattern = <<>>
    /\ before_date \in [t : Cutoffs(mode), aware : BOOLEAN]
    /\ tz_objects \in BOOLEAN
    /\ spc = "start"
    /\ cur_bucket = <<>>
    /\ seen_buckets = <<>>
    /\ seen_objects = <<>>
    /\ listed = <<>>
    /\ scanned = <<>>
    /\ scan_error = "none"
    /\ raised = "none"
    /\ lb_calls = 0
    /\ cur_pages = 0
    /\ seen_page = <<>>
    /\ counts = <<>>
    /\ sizes = <<>>
    /\ to_yield = <<>>
    /\ summaries = <<>>

FileInfo(b, k, t) == [bucket |-> b, key |-> k, last_modified |-> [t |-> t, aware |-> tz_objects]]

\* a validation that runs only when the first bucket is asked for
ScanInvalidAfterListing ==
    /\ mode = "scan"
    /\ spc = "start"
    /\ GlobInvalid(file_pattern) \/ ~RegexCompiles(bucket_pattern)
    /\ spc' = "invalid"
    /\ scan_error' = "ValueError"
    /\ lb_calls' = lb_calls + 1
    /\ UNCHANGED <<dvars, rvars, pvars, mvars>>
    /\ UNCHANGED <<bucket_pattern, file_pattern, before_date, cur_bucket,
                   seen_buckets, seen_objects, listed, scanned, tz_objects,
                   mode, raised, cur_pages, seen_page, tyvars>>

\* validate_glob_pattern or compile_regex raises ValueError
ScanInvalid ==
    /\ mode = "scan"
    /\ spc = "start"
    /\ GlobInvalid(file_pattern) \/ ~RegexCompiles(bucket_pattern)
    /\ spc' = "invalid"
    /\ scan_error' = "ValueError"
    /\ UNCHANGED <<dvars, rvars, pvars, mvars>>
    /\ UNCHANGED <<bucket_pattern, file_pattern, before_date, cur_bucket,
                   seen_buckets, seen_objects, listed, scanned, tz_objects,
                   mode, raised, pgvars, tyvars>>

\* the patterns are valid: "scan_started", self.provider.list_buckets() is
\* called and the loop over it begins
ScanStart ==
    /\ mode = "scan"
    /\ spc = "start"
    /\ ~GlobInvalid(file_pattern)
    /\ RegexCompiles(bucket_pattern)
    /\ spc' = "buckets"
    /\ lb_calls' = lb_calls + 1
    /\ UNCHANGED <<dvars, rvars, pvars, mvars>>
    /\ UNCHANGED <<bucket_pattern, file_pattern, before_date, cur_bucket,
                   seen_buckets, seen_objects, listed, scanned, scan_error,
                   tz_objects, mode, raised, cur_pages, seen_page, tyvars>>

\* the vendor's bucket names are unique: list_buckets produces a new one
NewBucket(name) == \A i \in DOMAIN seen_buckets : seen_buckets[i] # name

\* a loop that calls list_files for every bucket, matching or not
ScanBucketListsAll(name) ==
    /\ mode = "scan"
    /\ spc = "buckets"
    /\ Len(seen_buckets) < MaxBuckets
    /\ NewBucket(name)
    /\ seen_buckets' = Append(seen_buckets, name)
    /\ spc' = "files"
    /\ cur_bucket' = name
    /\ listed' = Append(listed, name)
    /\ cur_pages' = 0
    /\ UNCHANGED <<dvars, rvars, pvars, mvars>>
    /\ UNCHANGED <<bucket_pattern, file_pattern, before_date, seen_objects,
                   scanned, scan_error, tz_objects, mode, raised, lb_calls,
                   seen_page, tyvars>>

\* list_buckets produces a bucket: skipped, or matched and listed
ScanBucket(name) ==
    /\ mode = "scan"
    /\ spc = "buckets"
    /\ Len(seen_buckets) < MaxBuckets
    /\ NewBucket(name)
    /\ seen_buckets' = Append(seen_buckets, name)
    /\ IF ~matches_regex(name, bucket_pattern)
       THEN UNCHANGED <<spc, cur_bucket, listed, cur_pages>>
       ELSE /\ spc' = "files"
            /\ cur_bucket' = name
            /\ listed' = Append(listed, name)
            /\ cur_pages' = 0
    /\ UNCHANGED <<dvars, rvars, pvars, mvars>>
    /\ UNCHANGED <<bucket_pattern, file_pattern, before_date, seen_objects,
                   scanned, scan_error, tz_objects, mode, raised, lb_calls,
                   seen_page, tyvars>>

\* list_buckets is exhausted: "scan_completed" / "file_types_scan_completed"
ScanBucketsExhausted ==
    /\ spc = "buckets"
    /\ spc' = "done"
    /\ UNCHANGED <<dvars, rvars, pvars, mvars>>
    /\ UNCHANGED <<bucket_pattern, file_pattern, before_date, cur_bucket,
                   seen_buckets, seen_objects, listed, scanned, scan_error,
                   tz_objects, mode, raised, pgvars, tyvars>>

\* a filter that also keeps an object modified exactly at the cutoff
DateKeepsInclusive(lm, cutoff) == ~(lm.t > cutoff.t)

\* if file_info.last_modified >= before_date: continue
DateKeeps(lm, cutoff) == ~(lm.t >= cutoff.t)

\* a scan that asks list_files for the page after the one it is reading
ScanObjectPrefetch(k, t, np) ==
    /\ mode = "scan"
    /\ spc \in {"files", "yield"}
    /\ Len(seen_objects) < MaxObjects
    /\ np \/ cur_pages > 0
    /\ LET f == FileInfo(cur_bucket, k, t)
           page == IF np THEN cur_pages + 1 ELSE cur_pages
       IN  /\ seen_objects' = Append(seen_objects, f)
           /\ cur_pages' = page + 1
           /\ seen_page' = Append(seen_page, page)
           /\ IF ~matches_glob(f.key, file_pattern)
              THEN spc' = "files" /\ UNCHANGED <<scanned, scan_error>>
              ELSE IF f.last_modified.aware # before_date.aware
              THEN spc' = "failed" /\ scan_error' = "TypeError" /\ UNCHANGED scanned
              ELSE IF ~DateKeeps(f.last_modified, before_date)
              THEN spc' = "files" /\ UNCHANGED <<scanned, scan_error>>
              ELSE spc' = "yield" /\ scanned' = Append(scanned, f) /\ UNCHANGED scan_error
    /\ UNCHANGED <<dvars, rvars, pvars, mvars>>
    /\ UNCHANGED <<bucket_pattern, file_pattern, before_date, cur_bucket,
                   seen_buckets, listed, tz_objects, mode, raised, lb_calls,
                   tyvars>>

\* list_files produces an object, from the page it holds or, np, from a
\* page it fetches now (the first object of a listing always comes with a
\* fetch): glob filter, then date filter, then yield
ScanObject(k, t, np) ==
    /\ mode = "scan"
    /\ spc \in {"files", "yield"}
    /\ Len(seen_objects) < MaxObjects
    /\ np \/ cur_pages > 0
    /\ LET f == FileInfo(cur_bucket, k, t)
           page == IF np THEN cur_pages + 1 ELSE cur_pages
       IN  /\ seen_objects' = Append(seen_objects, f)
           /\ cur_pages' = page
           /\ seen_page' = Append(seen_page, page)
           /\ IF ~matches_glob(f.key, file_pattern)
              THEN spc' = "files" /\ UNCHANGED <<scanned, scan_error>>
              ELSE IF f.last_modified.aware # before_date.aware
              THEN spc' = "failed" /\ scan_error' = "TypeError" /\ UNCHANGED scanned
              ELSE IF ~DateKeeps(f.last_modified, before_date)
              THEN spc' = "files" /\ UNCHANGED <<scanned, scan_error>>
              ELSE spc' = "yield" /\ scanned' = Append(scanned, f) /\ UNCHANGED scan_error
    /\ UNCHANGED <<dvars, rvars, pvars, mvars>>
    /\ UNCHANGED <<bucket_pattern, file_pattern, before_date, cur_bucket,
                   seen_buckets, listed, tz_objects, mode, raised, lb_calls,
                   tyvars>>

\* a scan that deletes what it found in a bucket before it takes the next
ScanFilesExhaustedDeletes(np) ==
    /\ mode = "scan"
    /\ spc \in {"files", "yield"}
    /\ np \/ cur_pages > 0
    /\ cur_pages' = IF np THEN cur_pages + 1 ELSE cur_pages
    /\ spc' = "buckets"
    /\ LET InCurrent(f) == f.bucket = cur_bucket
           found == SelectSeq(scanned, InCurrent)
       IN  calls' = Append(calls, [bucket |-> cur_bucket,
                                   keys |-> [i \in DOMAIN found |-> found[i].key]])
    /\ UNCHANGED <<rvars, pvars, mvars>>
    /\ UNCHANGED <<files, batch_size, dry_run, skip_confirmation, provider, phase,
                   summary, displayed, prompts, response, groups, gi, bi, pending,
                   atYield, yielded, batches, raisedAt, total_success, total_failed>>
    /\ UNCHANGED <<bucket_pattern, file_pattern, before_date, cur_bucket,
                   seen_buckets, seen_objects, listed, scanned, scan_error,
                   tz_objects, mode, raised, lb_calls, seen_page, tyvars>>

\* list_files of the current bucket is exhausted, after a last fetch (np)
\* that brought no object or without one: next bucket
ScanFilesExhausted(np) ==
    /\ mode = "scan"
    /\ spc \in {"files", "yield"}
    /\ np \/ cur_pages > 0
    /\ cur_pages' = IF np THEN cur_pages + 1 ELSE cur_pages
    /\ spc' = "buckets"
    /\ UNCHANGED <<dvars, rvars, pvars, mvars>>
    /\ UNCHANGED <<bucket_pattern, file_pattern, before_date, cur_bucket,
                   seen_buckets, seen_objects, listed, scanned, scan_error,
                   tz_objects, mode, raised, lb_calls, seen_page, tyvars>>

\* the exceptions of a provider
ProviderErrors == {"AuthenticationError", "BucketNotFoundError", "CloudStorageError"}

\* the positions at which the generator resumes into list_buckets or list_files
AtProvider ==
    IF mode = "scan" THEN {"buckets", "files", "yield"} ELSE {"buckets", "files"}

\* a scanner that catches the provider's exception and raises its own
ScanProviderRaisesWrapped(e) ==
    /\ spc \in AtProvider
    /\ spc' = "failed"
    /\ raised' = e
    /\ scan_error' = "CloudStorageError"
    /\ UNCHANGED <<dvars, rvars, pvars, mvars>>
    /\ UNCHANGED <<bucket_pattern, file_pattern, before_date, cur_bucket,
                   seen_buckets, seen_objects, listed, scanned, tz_objects,
                   mode, pgvars, tyvars>>

\* list_buckets or list_files raises: neither generator has a try block,
\* the exception propagates to the consumer
ScanProviderRaises(e) ==
    /\ spc \in AtProvider
    /\ spc' = "failed"
    /\ raised' = e
    /\ scan_error' = e
    /\ UNCHANGED <<dvars, rvars, pvars, mvars>>
    /\ UNCHANGED <<bucket_pattern, file_pattern, before_date, cur_bucket,
                   seen_buckets, seen_objects, listed, scanned, tz_objects,
                   mode, pgvars, tyvars>>

\* the consumer stops consuming: the generator is closed at its yield
ScanClose ==
    /\ spc = "yield"
    /\ spc' = "closed"
    /\ UNCHANGED <<dvars, rvars, pvars, mvars>>
    /\ UNCHANGED <<bucket_pattern, file_pattern, before_date, cur_bucket,
                   seen_buckets, seen_objects, listed, scanned, scan_error,
                   tz_objects, mode, raised, pgvars, tyvars>>

(***************************************************************************)
(* BucketScanner.scan_file_types, one action per step of the generator     *)
(***************************************************************************)
\* code points of the characters that occur in keys and extensions
CharCode ==
    [c \in {" ", "(", ")", ".", "/", "M", "a", "b", "d", "e", "g", "h", "l",
            "n", "o", "t", "x"} |->
        CASE c = " " -> 32 [] c = "(" -> 40 [] c = ")" -> 41 [] c = "." -> 46
          [] c = "/" -> 47 [] c = "M" -> 77 [] c = "a" -> 97 [] c = "b" -> 98
          [] c = "d" -> 100 [] c = "e" -> 101 [] c = "g" -> 103 [] c = "h" -> 104
          [] c = "l" -> 108 [] c = "n" -> 110 [] c = "o" -> 111 [] c = "t" -> 116
          [] c = "x" -> 120]

\* str.__lt__: lexicographic order of the code points
RECURSIVE StrLess(_, _)
StrLess(a, b) ==
    IF b = <<>> THEN FALSE
    ELSE IF a = <<>> THEN TRUE
    ELSE IF Head(a) # Head(b) THEN CharCode[Head(a)] < CharCode[Head(b)]
    ELSE StrLess(Tail(a), Tail(b))

\* a sort in descending order
RECURSIVE sortedDescending(_)
sortedDescending(S) ==
    IF S = {} THEN <<>>
    ELSE LET m == CHOOSE x \in S : \A y \in S \ {x} : StrLess(y, x)
         IN  <<m>> \o sortedDescending(S \ {m})

\* sorted(counts.keys())
RECURSIVE sorted(_)
sorted(S) ==
    IF S = {} THEN <<>>
    ELSE LET m == CHOOSE x \in S : \A y \in S \ {x} : StrLess(x, y)
         IN  <<m>> \o sorted(S \ {m})

\* PurePosixPath(key).name: the last component of the path, trailing
\* slashes dropped
RECURSIVE PathName(_)
PathName(key) ==
    IF key = <<>> THEN <<>>
    ELSE IF key[Len(key)] = "/" THEN PathName(SubSeq(key, 1, Len(key) - 1))
    ELSE LET slashes == {i \in DOMAIN key : key[i] = "/"}
         IN  IF slashes = {} THEN key
             ELSE SubSeq(key, (CHOOSE i \in slashes : \A j \in slashes : j <= i) + 1,
                         Len(key))

\* a suffix that starts at the first dot of the name
SuffixFromFirstDot(key) ==
    LET name == PathName(key)
        dots == {i \in DOMAIN name : name[i] = "."}
    IN  IF dots = {} THEN <<>>
        ELSE LET i == CHOOSE d \in dots : \A j \in dots : d <= j
             IN  IF 1 < i /\ i < Len(name) THEN SubSeq(name, i, Len(name)) ELSE <<>>

\* PurePosixPath(key).suffix: i = name.rfind('.'); name[i:] if the dot is
\* neither the first nor the last character of the name, else ''
Suffix(key) ==
    LET name == PathName(key)
        dots == {i \in DOMAIN name : name[i] = "."}
    IN  IF dots = {} THEN <<>>
        ELSE LET i == CHOOSE d \in dots : \A j \in dots : j <= d
             IN  IF 1 < i /\ i < Len(name) THEN SubSeq(name, i, Len(name)) ELSE <<>>

\* "(no ext)"
NoExt == <<"(", "n", "o", " ", "e", "x", "t", ")">>

\* ext = suffix if suffix else "(no ext)"
Ext(key) == IF Suffix(key) # <<>> THEN Suffix(key) ELSE NoExt

\* d[e] += n on a defaultdict(int)
Add(d, e, n) ==
    [x \in DOMAIN d \cup {e} |->
        (IF x \in DOMAIN d THEN d[x] ELSE 0) + (IF x = e THEN n ELSE 0)]

SizedFileInfo(b, k, t, sz) ==
    [bucket |-> b, key |-> k, size |-> sz,
     last_modified |-> [t |-> t, aware |-> tz_objects]]

FileTypeSummary(b, e, n, sz) ==
    [bucket |-> b, extension |-> e, file_count |-> n, total_size |-> sz]

\* compile_regex raises ValueError
TypesInvalid ==
    /\ mode = "scan_file_types"
    /\ spc = "start"
    /\ ~RegexCompiles(bucket_pattern)
    /\ spc' = "invalid"
    /\ scan_error' = "ValueError"
    /\ UNCHANGED <<dvars, rvars, pvars, mvars>>
    /\ UNCHANGED <<bucket_pattern, file_pattern, before_date, cur_bucket,
                   seen_buckets, seen_objects, listed, scanned, tz_objects,
                   mode, raised, pgvars, tyvars>>

\* the regex compiles: "file_types_scan_started", list_buckets is called
TypesStart ==
    /\ mode = "scan_file_types"
    /\ spc = "start"
    /\ RegexCompiles(bucket_pattern)
    /\ spc' = "buckets"
    /\ lb_calls' = lb_calls + 1
    /\ UNCHANGED <<dvars, rvars, pvars, mvars>>
    /\ UNCHANGED <<bucket_pattern, file_pattern, before_date, cur_bucket,
                   seen_buckets, seen_objects, listed, scanned, scan_error,
                   tz_objects, mode, raised, cur_pages, seen_page, tyvars>>

\* list_buckets produces a bucket: skipped, or matched and listed with
\* fresh counts and sizes
TypesBucket(name) ==
    /\ mode = "scan_file_types"
    /\ spc = "buckets"
    /\ Len(seen_buckets) < MaxBuckets
    /\ NewBucket(name)
    /\ seen_buckets' = Append(seen_buckets, name)
    /\ IF ~matches_regex(name, bucket_pattern)
       THEN UNCHANGED <<spc, cur_bucket, listed, counts, sizes>>
       ELSE /\ spc' = "files"
            /\ cur_bucket' = name
            /\ listed' = Append(listed, name)
            /\ counts' = <<>>
            /\ sizes' = <<>>
    /\ UNCHANGED <<dvars, rvars, pvars, mvars>>
    /\ UNCHANGED <<bucket_pattern, file_pattern, before_date, seen_objects,
                   scanned, scan_error, tz_objects, mode, raised, pgvars,
                   to_yield, summaries>>

\* a date filter that compares the instants and ignores whether the two
\* values carry a timezone
TypesObjectNaiveCompare(k, t, sz) ==
    /\ mode = "scan_file_types"
    /\ spc = "files"
    /\ Len(seen_objects) < MaxObjects
    /\ LET f == SizedFileInfo(cur_bucket, k, t, sz)
       IN  /\ seen_objects' = Append(seen_objects, f)
           /\ IF ~DateKeeps(f.last_modified, before_date)
              THEN UNCHANGED <<spc, scan_error, counts, sizes>>
              ELSE /\ counts' = Add(counts, Ext(f.key), 1)
                   /\ sizes' = Add(sizes, Ext(f.key), f.size)
                   /\ UNCHANGED <<spc, scan_error>>
    /\ UNCHANGED <<dvars, rvars, pvars, mvars>>
    /\ UNCHANGED <<bucket_pattern, file_pattern, before_date, cur_bucket,
                   seen_buckets, listed, scanned, tz_objects, mode, raised,
                   pgvars, to_yield, summaries>>

\* list_files produces an object: date filter, then counts[ext] += 1 and
\* sizes[ext] += file_info.size
TypesObject(k, t, sz) ==
    /\ mode = "scan_file_types"
    /\ spc = "files"
    /\ Len(seen_objects) < MaxObjects
    /\ LET f == SizedFileInfo(cur_bucket, k, t, sz)
       IN  /\ seen_objects' = Append(seen_objects, f)
           /\ IF f.last_modified.aware # before_date.aware
              THEN spc' = "failed" /\ scan_error' = "TypeError" /\ UNCHANGED <<counts, sizes>>
              ELSE IF ~DateKeeps(f.last_modified, before_date)
              THEN UNCHANGED <<spc, scan_error, counts, sizes>>
              ELSE /\ counts' = Add(counts, Ext(f.key), 1)
                   /\ sizes' = Add(sizes, Ext(f.key), f.size)
                   /\ UNCHANGED <<spc, scan_error>>
    /\ UNCHANGED <<dvars, rvars, pvars, mvars>>
    /\ UNCHANGED <<bucket_pattern, file_pattern, before_date, cur_bucket,
                   seen_buckets, listed, scanned, tz_objects, mode, raised,
                   pgvars, to_yield, summaries>>

\* list_files of the current bucket is exhausted: the loop over
\* sorted(counts.keys()) begins
TypesFilesExhausted ==
    /\ mode = "scan_file_types"
    /\ spc = "files"
    /\ to_yield' = sorted(DOMAIN counts)
    /\ spc' = "emit"
    /\ UNCHANGED <<dvars, rvars, pvars, mvars>>
    /\ UNCHANGED <<bucket_pattern, file_pattern, before_date, cur_bucket,
                   seen_buckets, seen_objects, listed, scanned, scan_error,
                   tz_objects, mode, raised, pgvars, counts, sizes, summaries>>

\* yield FileTypeSummary(bucket, ext, counts[ext], sizes[ext])
TypesYield ==
    /\ mode = "scan_file_types"
    /\ spc \in {"emit", "yield"}
    /\ to_yield # <<>>
    /\ LET ext == Head(to_yield)
       IN  summaries' = Append(summaries,
                               FileTypeSummary(cur_bucket, ext, counts[ext], sizes[ext]))
    /\ to_yield' = Tail(to_yield)
    /\ spc' = "yield"
    /\ UNCHANGED <<dvars, rvars, pvars, mvars>>
    /\ UNCHANGED <<bucket_pattern, file_pattern, before_date, cur_bucket,
                   seen_buckets, seen_objects, listed, scanned, scan_error,
                   tz_objects, mode, raised, pgvars, counts, sizes>>

\* the loop over the extensions is over: next bucket
TypesBucketDone ==
    /\ mode = "scan_file_types"
    /\ spc \in {"emit", "yield"}
    /\ to_yield = <<>>
    /\ spc' = "buckets"
    /\ UNCHANGED <<dvars, rvars, pvars, mvars>>
    /\ UNCHANGED <<bucket_pattern, file_pattern, before_date, cur_bucket,
                   seen_buckets, seen_objects, listed, scanned, scan_error,
                   tz_objects, mode, raised, pgvars, tyvars>>

ScanNext ==
    \/ ScanInvalid
    \/ ScanStart
    \/ \E name \in BucketNames : ScanBucket(name)
    \/ ScanBucketsExhausted
    \/ \E k \in ObjectKeys, t \in Times, np \in BOOLEAN : ScanObject(k, t, np)
    \/ \E np \in BOOLEAN : ScanFilesExhausted(np)
    \/ \E e \in ProviderErrors : ScanProviderRaises(e)
    \/ ScanClose
    \/ TypesInvalid
    \/ TypesStart
    \/ \E name \in BucketNames : TypesBucket(name)
    \/ \E k \in TypeKeys, t \in Times, sz \in Sizes : TypesObject(k, t, sz)
    \/ TypesFilesExhausted
    \/ TypesYield
    \/ TypesBucketDone

SpecScan == ScanInit /\ [][ScanNext]_vars

(***************************************************************************)
(* Properties of BucketScanner.scan                                        *)
(***************************************************************************)
\* C9: a fully consumed scan has yielded exactly the enumerated objects
\* whose bucket name the regex finds, whose key the glob matches and whose
\* last_modified is strictly less than before_date, in enumeration order;
\* an object modified exactly at before_date is not among them.
C9_ScanYieldsExactlyMatches ==
    spc = "done" =>
        /\ scanned = SelectSeq(seen_objects, LAMBDA f :
                /\ matches_regex(f.bucket, bucket_pattern)
                /\ matches_glob(f.key, file_pattern)
                /\ f.last_modified.t < before_date.t)
        /\ \A i \in DOMAIN scanned : scanned[i].last_modified.t # before_date.t

C9_Witness ==
    /\ spc = "done"
    /\ Len(seen_objects) = MaxObjects
    /\ Len(scanned) = 1
    /\ \E i \in DOMAIN seen_objects :
        /\ seen_objects[i].last_modified.t = before_date.t
        /\ matches_glob(seen_objects[i].key, file_pattern)

(***************************************************************************)
(* RateLimiter.acquire and RateLimiter.try_acquire                         *)
(***************************************************************************)
RLInit ==
    /\ DeleterUnused
    /\ ScannerUnused
    /\ ProviderUnused
    /\ SummaryUnused
    /\ capacity \in 0..MaxCap
    /\ tokens = capacity
    /\ now = 1
    /\ last_update = now
    /\ lock = "free"
    /\ tpc = [t \in Threads |-> "idle"]
    /\ call = [t \in Threads |-> [op |-> "none", n |-> 0]]
    /\ sleep_left = [t \in Threads |-> 0]
    /\ result = [t \in Threads |-> "none"]
    /\ allowance = capacity

\* a thread calls acquire(n) or try_acquire(n)
RLCall(t, op, n) ==
    /\ tpc[t] = "idle"
    /\ tpc' = [tpc EXCEPT ![t] = "lock"]
    /\ call' = [call EXCEPT ![t] = [op |-> op, n |-> n]]
    /\ result' = [result EXCEPT ![t] = "pending"]
    /\ UNCHANGED <<dvars, svars, pvars, mvars>>
    /\ UNCHANGED <<capacity, tokens, last_update, lock, now, sleep_left, allowance>>

\* a with block that does not wait for the lock
RLEnterNoLock(t) ==
    /\ tpc[t] = "lock"
    /\ lock' = t
    /\ tpc' = [tpc EXCEPT ![t] = "refill"]
    /\ UNCHANGED <<dvars, svars, pvars, mvars>>
    /\ UNCHANGED <<capacity, tokens, last_update, now, call, sleep_left, result,
                   allowance>>

\* with self.lock: the thread gets the lock once it is free
RLEnter(t) ==
    /\ tpc[t] = "lock"
    /\ lock = "free"
    /\ lock' = t
    /\ tpc' = [tpc EXCEPT ![t] = "refill"]
    /\ UNCHANGED <<dvars, svars, pvars, mvars>>
    /\ UNCHANGED <<capacity, tokens, last_update, now, call, sleep_left, result,
                   allowance>>

\* a refill that forgets the capacity
RefilledNoCap(tok, elapsed, cap) == tok + elapsed

\* min(self.capacity, self.tokens + elapsed * self.rate)
Refilled(tok, elapsed, cap) == Min(cap, tok + elapsed)

\* now = time.time(); the refill; self.last_update = now
RLRefill(t) ==
    /\ tpc[t] = "refill"
    /\ tokens' = Refilled(tokens, now - last_update, capacity)
    /\ last_update' = now
    /\ tpc' = [tpc EXCEPT ![t] = "check"]
    /\ UNCHANGED <<dvars, svars, pvars, mvars>>
    /\ UNCHANGED <<capacity, lock, now, call, sleep_left, result, allowance>>

\* a comparison that is satisfied by any positive balance
EnoughAny(tok, n) == tok > 0

\* self.tokens >= tokens
Enough(tok, n) == tok >= n

\* an acquire that gives the lock back while it sleeps
RLCheckSleepsUnlocked(t) ==
    /\ tpc[t] = "check"
    /\ IF Enough(tokens, call[t].n)
       THEN /\ tokens' = tokens - call[t].n
            /\ allowance' = allowance - call[t].n
            /\ result' = [result EXCEPT ![t] = IF call[t].op = "try_acquire" THEN "True" ELSE "None"]
            /\ lock' = "free"
            /\ tpc' = [tpc EXCEPT ![t] = "idle"]
            /\ UNCHANGED sleep_left
       ELSE IF call[t].op = "try_acquire"
       THEN /\ result' = [result EXCEPT ![t] = "False"]
            /\ lock' = "free"
            /\ tpc' = [tpc EXCEPT ![t] = "idle"]
            /\ UNCHANGED <<tokens, sleep_left, allowance>>
       ELSE /\ sleep_left' = [sleep_left EXCEPT ![t] = call[t].n - tokens]
            /\ tpc' = [tpc EXCEPT ![t] = "sleep"]
            /\ lock' = "free"
            /\ UNCHANGED <<tokens, result, allowance>>
    /\ UNCHANGED <<dvars, svars, pvars, mvars>>
    /\ UNCHANGED <<capacity, last_update, now, call>>

\* if self.tokens >= tokens: deduct and return; else return False or sleep
RLCheck(t) ==
    /\ tpc[t] = "check"
    /\ IF Enough(tokens, call[t].n)
       THEN /\ tokens' = tokens - call[t].n
            /\ allowance' = allowance - call[t].n
            /\ result' = [result EXCEPT ![t] = IF call[t].op = "try_acquire" THEN "True" ELSE "None"]
            /\ lock' = "free"
            /\ tpc' = [tpc EXCEPT ![t] = "idle"]
            /\ UNCHANGED sleep_left
       ELSE IF call[t].op = "try_acquire"
       THEN /\ result' = [result EXCEPT ![t] = "False"]
            /\ lock' = "free"
            /\ tpc' = [tpc EXCEPT ![t] = "idle"]
            /\ UNCHANGED <<tokens, sleep_left, allowance>>
       ELSE /\ sleep_left' = [sleep_left EXCEPT ![t] = call[t].n - tokens]
            /\ tpc' = [tpc EXCEPT ![t] = "sleep"]
            /\ UNCHANGED <<tokens, lock, result, allowance>>
    /\ UNCHANGED <<dvars, svars, pvars, mvars>>
    /\ UNCHANGED <<capacity, last_update, now, call>>

\* time.sleep(wait_time) returns, still inside the with block: loop again
RLWake(t) ==
    /\ tpc[t] = "sleep"
    /\ sleep_left[t] = 0
    /\ tpc' = [tpc EXCEPT ![t] = "refill"]
    /\ UNCHANGED <<dvars, svars, pvars, mvars>>
    /\ UNCHANGED <<capacity, tokens, last_update, lock, now, call, sleep_left, result,
                   allowance>>

\* one refill interval passes
RLTick ==
    /\ now < MaxTime
    /\ now' = now + 1
    /\ sleep_left' = [t \in Threads |-> IF sleep_left[t] > 0 THEN sleep_left[t] - 1 ELSE 0]
    /\ allowance' = Min(allowance + 1, MaxAllowance)
    /\ UNCHANGED <<dvars, svars, pvars, mvars>>
    /\ UNCHANGED <<capacity, tokens, last_update, lock, tpc, call, result>>

\* the wall clock read by time.time() is set back; sleeps are not affected
RLClockBack ==
    /\ now > 0
    /\ now' = now - 1
    /\ UNCHANGED <<dvars, svars, pvars, mvars>>
    /\ UNCHANGED <<capacity, tokens, last_update, lock, tpc, call, sleep_left, result,
                   allowance>>

RLNext ==
    \/ \E t \in Threads, op \in {"acquire", "try_acquire"}, n \in 1..MaxN : RLCall(t, op, n)
    \/ \E t \in Threads : RLEnter(t)
    \/ \E t \in Threads : RLRefill(t)
    \/ \E t \in Threads : RLCheck(t)
    \/ \E t \in Threads : RLWake(t)
    \/ RLTick
    \/ RLClockBack

SpecRL == RLInit /\ [][RLNext]_vars

(***************************************************************************)
(* Properties of RateLimiter                                               *)
(***************************************************************************)
\* the step in which thread t's acquire or try_acquire succeeds
Succeeds(t) ==
    /\ tpc[t] = "check"
    /\ tpc'[t] = "idle"
    /\ result'[t] \in {"None", "True"}

\* C10: under every interleaving of acquire and try_acquire calls the token
\* count never exceeds capacity, and right after a successful acquire or
\* try_acquire the token count is not negative.
C10_TokenBounds ==
    /\ [](tokens <= capacity)
    /\ [][\A t \in Threads : Succeeds(t) => tokens' >= 0]_vars

C10_Witness ==
    \E t, u \in Threads :
        /\ t # u
        /\ tpc[t] = "idle"
        /\ result[t] = "None"
        /\ tpc[u] = "lock"
        /\ call[u].op = "try_acquire"
        /\ tokens = 0
        /\ capacity = MaxCap
        /\ lock = "free"

\* the positions inside a with self.lock block
InLock == {"refill", "check", "sleep"}

\* C11: with several threads calling acquire and try_acquire on one limiter,
\* every successful call deducts exactly its n tokens from a balance of at
\* least n; a thread is inside the refill-check-deduct section only while it
\* holds the lock, and tokens and last_update change only in a step of the
\* lock holder; the tokens granted so far never exceed capacity plus rate
\* times the elapsed time (the allowance is never negative).
C11_NoDoubleSpend ==
    /\ [][\A t \in Threads : Succeeds(t) =>
            /\ tokens >= call[t].n
            /\ tokens' = tokens - call[t].n]_vars
    /\ [](\A t \in Threads : tpc[t] \in InLock => lock = t)
    /\ [][(tokens' # tokens \/ last_update' # last_update) =>
            \E t \in Threads :
                /\ lock = t
                /\ tpc[t] \in {"refill", "check"}
                /\ tpc'[t] # tpc[t]
                /\ \A u \in Threads \ {t} : tpc'[u] = tpc[u]]_vars
    /\ [](allowance >= 0)

\* an acquire and a try_acquire of two threads have spent the whole capacity
\* and the token of the one interval that has passed
C11_Witness ==
    \E t, u \in Threads :
        /\ t # u
        /\ tpc[t] = "idle" /\ result[t] = "None"
        /\ tpc[u] = "idle" /\ result[u] = "True"
        /\ capacity = MaxCap
        /\ now > 1
        /\ tokens = 0
        /\ allowance = 0

\* C12: try_acquire never blocks: no thread that has called try_acquire is
\* kept waiting for the lock while another thread sleeps inside acquire,
\* waiting for tokens to refill.
C12_TryAcquireNeverBlocks ==
    \A t \in Threads :
        (call[t].op = "try_acquire" /\ tpc[t] = "lock") =>
            ~\E u \in Threads \ {t} :
                /\ lock = u
                /\ call[u].op = "acquire"
                /\ tpc[u] = "sleep"
                /\ sleep_left[u] > 0

\* C13: try_acquire(n) first refills tokens to
\* min(capacity, tokens + elapsed * rate); the refilled balance is what it
\* compares; it returns True and deducts exactly n if that balance is at
\* least n, and otherwise returns False and deducts nothing.
C13_TryAcquire ==
    [][\A t \in Threads : call[t].op = "try_acquire" =>
        /\ (tpc[t] = "refill" /\ tpc'[t] = "check") =>
                /\ tokens' = (IF tokens + (now - last_update) <= capacity
                              THEN tokens + (now - last_update) ELSE capacity)
                /\ result'[t] = "pending"
        /\ (tpc[t] = "check" /\ tpc'[t] = "check") => tokens' = tokens
        /\ (tpc[t] = "check" /\ tpc'[t] # "check") =>
                /\ tpc'[t] = "idle"
                /\ IF tokens >= call[t].n
                   THEN result'[t] = "True" /\ tokens' = tokens - call[t].n
                   ELSE result'[t] = "False" /\ tokens' = tokens]_vars

\* after time has passed one try_acquire has succeeded and another, asking
\* for one token more than the refilled balance, has returned False
C13_Witness ==
    \E t, u \in Threads :
        /\ t # u
        /\ tpc[t] = "idle" /\ result[t] = "False"
        /\ call[t] = [op |-> "try_acquire", n |-> MaxN]
        /\ tpc[u] = "idle" /\ result[u] = "True"
        /\ tokens = MaxN - 1
        /\ last_update = now
        /\ now > 1

(***************************************************************************)
(* RateLimiter under fair scheduling, with time that never stops.          *)
(* time.time() is monotonic here.  acquire and try_acquire read the clock  *)
(* only as the difference now - last_update, and with tokens >= 0 every    *)
(* difference of capacity or more refills to capacity, so the passing of   *)
(* an interval is recorded by moving last_update back, down to             *)
(* now - capacity.                                                         *)
(***************************************************************************)
RLTickFair ==
    /\ last_update' = IF now - last_update < capacity THEN last_update - 1 ELSE last_update
    /\ sleep_left' = [t \in Threads |-> IF sleep_left[t] > 0 THEN sleep_left[t] - 1 ELSE 0]
    /\ allowance' = Min(allowance + 1, MaxAllowance)
    /\ UNCHANGED <<dvars, svars, pvars, mvars>>
    /\ UNCHANGED <<capacity, tokens, lock, now, tpc, call, result>>

RLFairNext ==
    \/ \E t \in Threads, op \in {"acquire", "try_acquire"}, n \in 1..MaxN : RLCall(t, op, n)
    \/ \E t \in Threads : RLEnter(t)
    \/ \E t \in Threads : RLRefill(t)
    \/ \E t \in Threads : RLCheck(t)
    \/ \E t \in Threads : RLWake(t)
    \/ RLTickFair

\* time passes, a running thread takes its next step, and a thread waiting
\* for the lock gets it if the lock is free again and again
RLFairness ==
    /\ WF_vars(RLTickFair)
    /\ \A t \in Threads :
        /\ SF_vars(RLEnter(t))
        /\ WF_vars(RLRefill(t))
        /\ WF_vars(RLCheck(t))
        /\ WF_vars(RLWake(t))

SpecRLFair == RLInit /\ [][RLFairNext]_vars /\ RLFairness

\* thread t is inside acquire
InAcquire(t) == call[t].op = "acquire" /\ tpc[t] # "idle"

\* C14: every call acquire(n) eventually returns, for every positive n.
C14_AcquireReturns ==
    \A t \in Threads : InAcquire(t) ~> (tpc[t] = "idle")

\* C15: no waiter is starved: under fair scheduling every acquire(n) with
\* n <= capacity eventually returns, whatever the other threads call.
C15_NoStarvation ==
    \A t \in Threads :
        (InAcquire(t) /\ call[t].n <= capacity) ~> (tpc[t] = "idle")

(***************************************************************************)
(* AliyunProvider and TencentProvider: list_buckets, list_files and        *)
(* batch_delete of one provider instance, one call at a time.  A call      *)
(* starts with the locals of the previous call gone.                       *)
(***************************************************************************)
\* the buckets of the account, in the order the vendor lists them
VendorBuckets == <<"b1", "b2">>

\* the location the vendor reports for a bucket
Location == [b \in Buckets |-> IF b = "b1" THEN "region-1" ELSE "region-2"]

\* _get_client / _get_bucket_endpoint: the cached location of the bucket,
\* else the configured region / endpoint
ClientFor(b) == IF b \in bucket_regions THEN Location[b] ELSE "default"

\* key lists passed to batch_delete: short ones, repetitions included, and
\* lists of MaxKeys and of MaxKeys + 1 keys
KeyLists ==
    SeqsUpTo(1..MaxBatchKeys, MaxBatchKeys)
        \cup {[i \in 1..n |-> i] : n \in {MaxKeys, MaxKeys + 1}}

\* positions between two calls
Rest == {"idle", "lb_done", "lb_raised", "lf_done", "lf_raised", "bd_done", "bd_raised"}

\* positions between self.rate_limiter.acquire() and the vendor request
Acquired == {"lb_acquired", "lf_acquired", "bd_acquired"}

CanStart == ppc \in Rest /\ requested < MaxRequests

LBReset ==
    /\ lb_pending' = <<>>
    /\ lb_truncated' = FALSE
    /\ lb_yielded' = <<>>

LFReset ==
    /\ nobjects' = 0
    /\ marker' = 0
    /\ has_more' = FALSE
    /\ contents' = <<>>
    /\ reply' = NoReply
    /\ lf_yielded' = <<>>
    /\ pages' = 0

ErrReset == vfail' = "none" /\ perr' = "none"

BDReset ==
    /\ bd_bucket' = "none"
    /\ bd_keys' = <<>>
    /\ answer' = <<{}, {}>>
    /\ results' = <<>>
    /\ bd_out' = "none"

\* the failures a vendor answers a request with: an error code of a service
\* error, the HTTP status 429, another service error, a transport error
VendorFailures == {"AccessDenied", "NoSuchBucket", "429", "other", "transport"}

\* the failures of a request that names no bucket
ServiceFailures == VendorFailures \ {"NoSuchBucket"}

\* the except clauses of AliyunProvider
AliyunRaises(op, v) ==
    IF op = "list_buckets"
    THEN IF v = "AccessDenied" THEN "AuthenticationError" ELSE "CloudStorageError"
    ELSE IF v = "NoSuchBucket" THEN "BucketNotFoundError"
    ELSE IF v = "AccessDenied" THEN "AuthenticationError"
    ELSE IF v = "429" /\ op = "list_files" THEN "RateLimitError"
    ELSE "CloudStorageError"

\* the except clauses of TencentProvider
TencentRaises(op, v) ==
    IF op = "list_buckets"
    THEN IF v = "AccessDenied" THEN "AuthenticationError" ELSE "CloudStorageError"
    ELSE IF v = "NoSuchBucket" THEN "BucketNotFoundError"
    ELSE IF v = "429" /\ op = "list_files" THEN "RateLimitError"
    ELSE "CloudStorageError"

Raises(kind, op, v) ==
    IF kind = "aliyun" THEN AliyunRaises(op, v) ELSE TencentRaises(op, v)

ProvInit ==
    /\ DeleterUnused
    /\ ScannerUnused
    /\ LimiterUnused
    /\ SummaryUnused
    /\ pkind \in {"aliyun", "tencent"}
    /\ ppc = "idle"
    /\ bucket_regions = {}
    /\ acquired = 0
    /\ requested = 0
    /\ client = "none"
    /\ LBLocals
    /\ LFLocals
    /\ BDLocals
    /\ ErrLocals
    /\ RegLocals

\* list_buckets, first next(): self.rate_limiter.acquire()
LBAcquire ==
    /\ CanStart
    /\ acquired' = acquired + 1
    /\ client' = "default"
    /\ ppc' = "lb_acquired"
    /\ LBReset /\ LFReset /\ BDReset
    /\ ErrReset
    /\ UNCHANGED <<dvars, svars, rvars, mvars>>
    /\ lf_bucket' = "none" /\ nested' = FALSE
    /\ UNCHANGED <<pkind, bucket_regions, located, requested>>

\* self.service.list_buckets() / self.client.list_buckets(): one request,
\* without marker; the vendor answers with the first e buckets and says
\* whether the listing is truncated
LBRequest(e) ==
    /\ ppc = "lb_acquired"
    /\ e \in 1..Len(VendorBuckets)
    /\ requested' = requested + 1
    /\ lb_pending' = SubSeq(VendorBuckets, 1, e)
    /\ lb_truncated' = (e < Len(VendorBuckets))
    /\ ppc' = "lb_yield"
    /\ UNCHANGED <<dvars, svars, rvars, mvars>>
    /\ UNCHANGED <<regvars, errvars, pkind, bucket_regions, acquired, client, lb_yielded, lfvars, bdvars>>

\* the request fails with vendor failure v: the except clauses of
\* list_buckets raise the exception for it
LBRequestRaises(v) ==
    /\ ppc = "lb_acquired"
    /\ requested' = requested + 1
    /\ vfail' = v
    /\ perr' = Raises(pkind, "list_buckets", v)
    /\ ppc' = "lb_raised"
    /\ UNCHANGED <<dvars, svars, rvars, mvars>>
    /\ UNCHANGED <<regvars, pkind, bucket_regions, acquired, client, lbvars, lfvars, bdvars>>

\* the BucketInfo of the next bucket is yielded and nothing is cached
LBYieldNoCache(hasloc) ==
    /\ ppc = "lb_yield"
    /\ lb_pending # <<>>
    /\ located' = IF hasloc THEN located \cup {Head(lb_pending)} ELSE located
    /\ lb_yielded' = Append(lb_yielded, Head(lb_pending))
    /\ lb_pending' = Tail(lb_pending)
    /\ UNCHANGED <<lb_truncated, bucket_regions, lf_bucket, nested>>
    /\ UNCHANGED <<dvars, svars, rvars, mvars>>
    /\ UNCHANGED <<errvars, pkind, ppc, acquired, requested, client, lfvars, bdvars>>

\* the next bucket of the response: if its record carries a location
\* (hasloc) the location is cached under the bucket's name, then its
\* BucketInfo is yielded
LBYield(hasloc) ==
    /\ ppc = "lb_yield"
    /\ lb_pending # <<>>
    /\ bucket_regions' = IF hasloc THEN bucket_regions \cup {Head(lb_pending)}
                                   ELSE bucket_regions
    /\ located' = IF hasloc THEN located \cup {Head(lb_pending)} ELSE located
    /\ lb_yielded' = Append(lb_yielded, Head(lb_pending))
    /\ lb_pending' = Tail(lb_pending)
    /\ UNCHANGED <<lb_truncated, lf_bucket, nested>>
    /\ UNCHANGED <<dvars, svars, rvars, mvars>>
    /\ UNCHANGED <<errvars, pkind, ppc, acquired, requested, client, lfvars, bdvars>>

LBDone ==
    /\ ppc = "lb_yield"
    /\ lb_pending = <<>>
    /\ ppc' = "lb_done"
    /\ UNCHANGED <<dvars, svars, rvars, mvars>>
    /\ UNCHANGED <<regvars, errvars, pkind, bucket_regions, acquired, requested, client, lbvars,
                   lfvars, bdvars>>

\* list_files(b), first next(), on a bucket of n objects: marker = "",
\* has_more = True, the client of the bucket's region / endpoint
LFStart(b, n) ==
    /\ CanStart
    /\ client' = ClientFor(b)
    /\ nobjects' = n
    /\ marker' = 0
    /\ has_more' = TRUE
    /\ contents' = <<>>
    /\ reply' = NoReply
    /\ lf_yielded' = <<>>
    /\ pages' = 0
    /\ ppc' = "lf_loop"
    /\ LBReset /\ BDReset
    /\ ErrReset
    /\ lf_bucket' = b /\ nested' = FALSE
    /\ UNCHANGED <<dvars, svars, rvars, mvars>>
    /\ UNCHANGED <<pkind, bucket_regions, located, acquired, requested>>

\* the consumer of list_buckets calls list_files for the bucket it was just
\* handed, as scan does: list_buckets stays suspended at its yield
LFStartNested(n) ==
    /\ ppc = "lb_yield"
    /\ lb_yielded # <<>>
    /\ requested < MaxRequests
    /\ client' = ClientFor(lb_yielded[Len(lb_yielded)])
    /\ lf_bucket' = lb_yielded[Len(lb_yielded)]
    /\ nested' = TRUE
    /\ nobjects' = n
    /\ marker' = 0
    /\ has_more' = TRUE
    /\ contents' = <<>>
    /\ reply' = NoReply
    /\ lf_yielded' = <<>>
    /\ pages' = 0
    /\ ppc' = "lf_loop"
    /\ UNCHANGED <<dvars, svars, rvars, mvars>>
    /\ UNCHANGED <<pkind, bucket_regions, located, acquired, requested, lbvars, bdvars,
                   errvars>>

\* the nested list_files is exhausted and the consumer asks list_buckets for
\* the next bucket
LBResume ==
    /\ ppc = "lf_done"
    /\ nested
    /\ ppc' = "lb_yield"
    /\ client' = "default"
    /\ lf_bucket' = "none"
    /\ nested' = FALSE
    /\ LFReset
    /\ UNCHANGED <<dvars, svars, rvars, mvars>>
    /\ UNCHANGED <<pkind, bucket_regions, located, acquired, requested, lbvars, bdvars,
                   errvars>>

\* an acquire before the first page only
LFAcquireFirstPageOnly ==
    /\ ppc = "lf_loop"
    /\ has_more
    /\ pages <= MaxListed
    /\ acquired' = IF pages = 0 THEN acquired + 1 ELSE acquired
    /\ ppc' = "lf_acquired"
    /\ UNCHANGED <<dvars, svars, rvars, mvars>>
    /\ UNCHANGED <<regvars, errvars, pkind, bucket_regions, requested, client, lbvars, lfvars, bdvars>>

\* while has_more: self.rate_limiter.acquire()
LFAcquire ==
    /\ ppc = "lf_loop"
    /\ has_more
    /\ pages <= MaxListed
    /\ acquired' = acquired + 1
    /\ ppc' = "lf_acquired"
    /\ UNCHANGED <<dvars, svars, rvars, mvars>>
    /\ UNCHANGED <<regvars, errvars, pkind, bucket_regions, requested, client, lbvars, lfvars, bdvars>>

\* the ends of the page the vendor may return for marker m of n objects:
\* at least one object while objects remain
PageEnds(m, n) == IF m < n THEN (m + 1)..n ELSE {n}

\* IsTruncated as the SDK hands it over: a string of the XML (Tencent), a
\* bool (Aliyun)
Truncated(kind, more) ==
    IF kind = "tencent" THEN (IF more THEN "true" ELSE "false")
    ELSE (IF more THEN "True" ELSE "False")

\* response.get("IsTruncated") == "true" / result.is_truncated
HasMore(kind, r) ==
    IF kind = "tencent" THEN r.truncated = "true" ELSE r.truncated = "True"

\* list_objects(prefix, marker, max_keys=1000): the vendor returns the
\* objects after the marker up to e, and a next marker if more remain
LFRequest(e) ==
    /\ ppc = "lf_acquired"
    /\ e \in PageEnds(marker, nobjects)
    /\ requested' = requested + 1
    /\ pages' = pages + 1
    /\ contents' = [i \in 1..(e - marker) |-> marker + i]
    /\ reply' = [truncated |-> Truncated(pkind, e < nobjects),
                 next |-> IF e < nobjects THEN e ELSE 0]
    /\ ppc' = "lf_yield"
    /\ UNCHANGED <<dvars, svars, rvars, mvars>>
    /\ UNCHANGED <<regvars, errvars, pkind, bucket_regions, acquired, client, lbvars, nobjects,
                   marker, has_more, lf_yielded, bdvars>>

\* the request fails with vendor failure v: the except clauses of
\* list_files raise the exception for it
LFRequestRaises(v) ==
    /\ ppc = "lf_acquired"
    /\ requested' = requested + 1
    /\ vfail' = v
    /\ perr' = Raises(pkind, "list_files", v)
    /\ ppc' = "lf_raised"
    /\ UNCHANGED <<dvars, svars, rvars, mvars>>
    /\ UNCHANGED <<regvars, pkind, bucket_regions, acquired, client, lbvars, lfvars, bdvars>>

\* yield FileInfo(...) for the next object of the page
LFYield ==
    /\ ppc = "lf_yield"
    /\ contents # <<>>
    /\ lf_yielded' = Append(lf_yielded, Head(contents))
    /\ contents' = Tail(contents)
    /\ UNCHANGED <<dvars, svars, rvars, mvars>>
    /\ UNCHANGED <<regvars, errvars, pkind, ppc, bucket_regions, acquired, requested, client, lbvars,
                   nobjects, marker, has_more, reply, pages, bdvars>>

\* a loop that never takes the next marker
LFAfterPageKeepsMarker ==
    /\ ppc = "lf_yield"
    /\ contents = <<>>
    /\ has_more' = HasMore(pkind, reply)
    /\ ppc' = "lf_loop"
    /\ UNCHANGED <<dvars, svars, rvars, mvars>>
    /\ UNCHANGED <<regvars, errvars, pkind, bucket_regions, acquired, requested, client, lbvars,
                   nobjects, marker, contents, reply, lf_yielded, pages, bdvars>>

\* has_more = is_truncated; if has_more: marker = next_marker
LFAfterPage ==
    /\ ppc = "lf_yield"
    /\ contents = <<>>
    /\ has_more' = HasMore(pkind, reply)
    /\ marker' = IF HasMore(pkind, reply) THEN reply.next ELSE marker
    /\ ppc' = "lf_loop"
    /\ UNCHANGED <<dvars, svars, rvars, mvars>>
    /\ UNCHANGED <<regvars, errvars, pkind, bucket_regions, acquired, requested, client, lbvars,
                   nobjects, contents, reply, lf_yielded, pages, bdvars>>

\* has_more is False: the generator ends
LFDone ==
    /\ ppc = "lf_loop"
    /\ ~has_more
    /\ ppc' = "lf_done"
    /\ UNCHANGED <<dvars, svars, rvars, mvars>>
    /\ UNCHANGED <<regvars, errvars, pkind, bucket_regions, acquired, requested, client, lbvars,
                   lfvars, bdvars>>

\* a batch_delete that takes its token before it looks at the key list
BDCallChecksLate(b, ks) ==
    /\ CanStart
    /\ bd_bucket' = b
    /\ bd_keys' = ks
    /\ answer' = <<{}, {}>>
    /\ results' = <<>>
    /\ acquired' = acquired + 1
    /\ IF Len(ks) = 0
       THEN bd_out' = "returned" /\ ppc' = "bd_done" /\ client' = "none"
       ELSE IF Len(ks) > MaxKeys
       THEN bd_out' = "ValueError" /\ ppc' = "bd_raised" /\ client' = "none"
       ELSE bd_out' = "none" /\ ppc' = "bd_acquired" /\ client' = ClientFor(b)
    /\ LBReset /\ LFReset
    /\ ErrReset
    /\ UNCHANGED <<dvars, svars, rvars, mvars>>
    /\ lf_bucket' = "none" /\ nested' = FALSE
    /\ UNCHANGED <<pkind, bucket_regions, located, requested>>

\* batch_delete(b, ks): if not keys: return []; if len(keys) > 1000: raise
\* ValueError; else the client of the bucket and self.rate_limiter.acquire()
BDCall(b, ks) ==
    /\ CanStart
    /\ bd_bucket' = b
    /\ bd_keys' = ks
    /\ answer' = <<{}, {}>>
    /\ results' = <<>>
    /\ IF Len(ks) = 0
       THEN bd_out' = "returned" /\ ppc' = "bd_done" /\ client' = "none"
            /\ acquired' = acquired
       ELSE IF Len(ks) > MaxKeys
       THEN bd_out' = "ValueError" /\ ppc' = "bd_raised" /\ client' = "none"
            /\ acquired' = acquired
       ELSE bd_out' = "none" /\ ppc' = "bd_acquired" /\ client' = ClientFor(b)
            /\ acquired' = acquired + 1
    /\ LBReset /\ LFReset
    /\ ErrReset
    /\ UNCHANGED <<dvars, svars, rvars, mvars>>
    /\ lf_bucket' = "none" /\ nested' = FALSE
    /\ UNCHANGED <<pkind, bucket_regions, located, requested>>

\* batch_delete_objects / delete_objects answers; the results are built
BDRequest(ans) ==
    /\ ppc = "bd_acquired"
    /\ requested' = requested + 1
    /\ answer' = ans
    /\ results' = batch_delete(pkind, bd_bucket, bd_keys, ans)
    /\ bd_out' = "returned"
    /\ ppc' = "bd_done"
    /\ UNCHANGED <<dvars, svars, rvars, mvars>>
    /\ UNCHANGED <<regvars, errvars, pkind, bucket_regions, acquired, client, lbvars, lfvars,
                   bd_bucket, bd_keys>>

\* the request fails with vendor failure v: the except clauses of
\* batch_delete raise the exception for it
BDRequestRaises(v) ==
    /\ ppc = "bd_acquired"
    /\ requested' = requested + 1
    /\ vfail' = v
    /\ perr' = Raises(pkind, "batch_delete", v)
    /\ bd_out' = Raises(pkind, "batch_delete", v)
    /\ ppc' = "bd_raised"
    /\ UNCHANGED <<dvars, svars, rvars, mvars>>
    /\ UNCHANGED <<regvars, pkind, bucket_regions, acquired, client, lbvars, lfvars,
                   bd_bucket, bd_keys, answer, results>>

ProvNext ==
    \/ LBAcquire
    \/ \E e \in 1..Len(VendorBuckets) : LBRequest(e)
    \/ \E v \in ServiceFailures : LBRequestRaises(v)
    \/ \E hasloc \in BOOLEAN : LBYield(hasloc)
    \/ LBDone
    \/ \E b \in Buckets, n \in 0..MaxListed : LFStart(b, n)
    \/ \E n \in 0..MaxListed : LFStartNested(n)
    \/ LBResume
    \/ LFAcquire
    \/ \E e \in 0..MaxListed : LFRequest(e)
    \/ \E v \in VendorFailures : LFRequestRaises(v)
    \/ LFYield
    \/ LFAfterPage
    \/ LFDone
    \/ \E b \in Buckets, ks \in KeyLists : BDCall(b, ks)
    \/ \E ans \in VendorAnswers(bd_keys) : BDRequest(ans)
    \/ \E v \in VendorFailures : BDRequestRaises(v)

SpecProvider == ProvInit /\ [][ProvNext]_vars

(***************************************************************************)
(* Properties of the providers                                             *)
(***************************************************************************)
\* batch_delete has returned its list of results
Returned(kind) == pkind = kind /\ ppc = "bd_done" /\ bd_out = "returned"

\* the positions of the results for key k, and of k in the request
ResultsFor(k) == {j \in DOMAIN results : results[j].key = k}
RequestsOf(k) == {j \in DOMAIN bd_keys : bd_keys[j] = k}

\* C16: TencentProvider.batch_delete returns exactly one DeletionResult per
\* requested key, for every vendor response: a key listed under Deleted
\* gets a success, a key listed under Error a failure with the vendor's code
\* and message, and no requested key is left without a result or given two.
C16_TencentOnePerKey ==
    Returned("tencent") =>
        /\ Len(results) = Len(bd_keys)
        /\ \A i \in DOMAIN bd_keys :
            LET k == bd_keys[i] IN
            /\ Cardinality(ResultsFor(k)) = Cardinality(RequestsOf(k))
            /\ k \in answer[1] => \A j \in ResultsFor(k) : results[j].success
            /\ k \in answer[2] => \A j \in ResultsFor(k) :
                    ~results[j].success /\ results[j].error = "Code: Message"

\* C17: AliyunProvider.batch_delete returns exactly one DeletionResult per
\* requested key, in request order, for every vendor response: a success
\* exactly for the keys of the vendor's deleted-key list, a failure with an
\* error text for every other requested key.
C17_AliyunOnePerKeyInOrder ==
    Returned("aliyun") =>
        /\ Len(results) = Len(bd_keys)
        /\ \A i \in DOMAIN bd_keys :
            /\ results[i].key = bd_keys[i]
            /\ results[i].bucket = bd_bucket
            /\ results[i].success <=> bd_keys[i] \in answer[1]
            /\ ~results[i].success => results[i].error = "Key not in deleted list"

\* the keys were not asked for in ascending order, and the vendor deleted
\* one of them and reported nothing about the others
C17_Witness ==
    /\ Returned("aliyun")
    /\ Len(bd_keys) = MaxBatchKeys
    /\ bd_keys[1] > bd_keys[MaxBatchKeys]
    /\ Cardinality(answer[1]) = 1
    /\ \E i, j \in DOMAIN results : results[i].success /\ ~results[j].success

\* C18: batch_delete (both providers) checks its key list before the rate
\* limiter and the network: an empty list returns an empty result, a list of
\* more than 1000 keys raises ValueError with no key deleted, and in both
\* cases no token is taken and no vendor request sent; a call that reaches
\* the limiter has 1..1000 keys.
C18_ChecksBeforeLimiter ==
    /\ [][(ppc \in Rest /\ ppc' \in {"bd_done", "bd_raised", "bd_acquired"}) =>
            /\ Len(bd_keys') = 0 =>
                /\ ppc' = "bd_done" /\ bd_out' = "returned" /\ results' = <<>>
                /\ acquired' = acquired /\ requested' = requested
            /\ Len(bd_keys') > 1000 =>
                /\ ppc' = "bd_raised" /\ bd_out' = "ValueError"
                /\ results' = <<>> /\ answer'[1] = {}
                /\ acquired' = acquired /\ requested' = requested]_vars
    /\ [](ppc = "bd_acquired" => (Len(bd_keys) >= 1 /\ Len(bd_keys) <= 1000))
    /\ [](bd_out = "ValueError" => (answer[1] = {} /\ ppc = "bd_raised"))

\* after earlier requests a list of 1001 keys was rejected
C18_Witness ==
    /\ pkind = "tencent"
    /\ ppc = "bd_raised"
    /\ bd_out = "ValueError"
    /\ Len(bd_keys) = MaxKeys + 1
    /\ requested > 0
    /\ acquired = requested

\* C19: every vendor request of a provider (list_buckets, each list_files
\* page, each batch_delete), whichever region's or endpoint's client sends
\* it, is preceded by exactly one acquire on the provider's rate limiter:
\* requests and acquires alternate, so their numbers are equal once the
\* request is sent.
C19_OneAcquirePerRequest ==
    /\ [](acquired = requested \/ acquired = requested + 1)
    /\ []((acquired = requested + 1) <=> (ppc \in Acquired))
    /\ [][requested' # requested =>
            /\ ppc \in Acquired
            /\ requested' = requested + 1
            /\ acquired' = acquired]_vars
    /\ [][acquired' # acquired =>
            /\ ppc' \in Acquired
            /\ acquired' = acquired + 1
            /\ requested' = requested]_vars

\* list_buckets and then two pages of a bucket listed through the client of
\* its own region
C19_Witness ==
    /\ ppc = "lf_done"
    /\ client = "region-2"
    /\ pages = 2
    /\ requested = 3
    /\ acquired = 3

\* the objects 1..n in the vendor's order
Objects(n) == [i \in 1..n |-> i]

\* the positions of a list_files call
Listing == {"lf_loop", "lf_acquired", "lf_yield", "lf_done"}

\* C20: list_files (both providers) requests each page with the marker
\* returned with the previous page (the empty marker first) and only after a
\* page reported as truncated; what it has yielded is always the first
\* objects of the bucket in the vendor's order, each once; it ends having
\* yielded all of them, right after the first page not truncated, and never
\* asks for more pages than the bucket has objects (one for an empty bucket).
C20_Pagination ==
    /\ [][(ppc = "lf_acquired" /\ ppc' = "lf_yield") =>
            /\ marker = reply.next
            /\ pages > 0 => reply.truncated \in {"true", "True"}]_vars
    /\ [](ppc \in Listing =>
            /\ Len(lf_yielded) <= nobjects
            /\ lf_yielded = Objects(Len(lf_yielded))
            /\ pages <= (IF nobjects = 0 THEN 1 ELSE nobjects))
    /\ [](ppc = "lf_done" =>
            /\ lf_yielded = Objects(nobjects)
            /\ reply.truncated \in {"false", "False"})

\* a bucket of MaxListed objects was listed in one page per object
C20_Witness ==
    /\ pkind = "tencent"
    /\ ppc = "lf_done"
    /\ nobjects = MaxListed
    /\ pages = MaxListed
    /\ Len(lf_yielded) = MaxListed

\* C21: a list_buckets call that ends without an error has yielded every
\* bucket the vendor holds for the credentials, each exactly once and in the
\* vendor's order, also when the vendor truncates its listing into pages.
C21_ListBucketsComplete ==
    ppc = "lb_done" => lb_yielded = VendorBuckets

(***************************************************************************)
(* Properties of BucketScanner.scan and BucketScanner.scan_file_types      *)
(***************************************************************************)
\* the bucket regex "[" does not compile; an empty glob and a glob that
\* starts with "/" are rejected
BadRegex == bucket_pattern = <<"[">>
BadGlob == file_pattern = <<>> \/ Head(file_pattern) = "/"

\* C22: scan with a malformed bucket regex, an empty glob or a glob starting
\* with "/", and scan_file_types with a malformed bucket regex, raise a
\* validation error and never call list_buckets or list_files.
C22_ValidationBeforeProvider ==
    (BadRegex \/ (mode = "scan" /\ BadGlob)) =>
        /\ spc \in {"start", "invalid"}
        /\ spc = "invalid" => scan_error = "ValueError"
        /\ lb_calls = 0
        /\ seen_buckets = <<>>
        /\ listed = <<>>
        /\ cur_pages = 0

C22_Witness ==
    /\ spc = "invalid"
    /\ mode = "scan"
    /\ ~BadRegex
    /\ file_pattern # <<>>
    /\ BadGlob

Last(q) == q[Len(q)]

\* C23: when scan is at a yield, or was closed there by a consumer that
\* stopped, the object just yielded is the last one taken from list_files,
\* the pages fetched end with the page that held it, its bucket is the last
\* one listed and the last one taken from list_buckets; once the consumer
\* has stopped no provider call is made.
C23_Lazy ==
    /\ [](mode = "scan" /\ spc \in {"yield", "closed"} =>
            /\ scanned # <<>>
            /\ Last(seen_objects) = Last(scanned)
            /\ Len(seen_page) = Len(seen_objects)
            /\ cur_pages = Last(seen_page)
            /\ Last(listed) = Last(scanned).bucket
            /\ Last(seen_buckets) = Last(listed)
            /\ lb_calls = 1)
    /\ [][spc = "closed" =>
            UNCHANGED <<lb_calls, cur_pages, seen_buckets, seen_objects, listed>>]_vars

C23_Witness ==
    /\ mode = "scan"
    /\ spc = "closed"
    /\ Len(scanned) = 1
    /\ Len(seen_objects) = 2
    /\ cur_pages = 2
    /\ Len(seen_buckets) = 2

\* C24: an exception raised by list_buckets or list_files reaches the
\* consumer of scan or scan_file_types as it was raised; after it no bucket
\* is listed and nothing is yielded, and scan_file_types has yielded no
\* summary for the bucket whose listing raised.
C24_ProviderErrorPropagates ==
    /\ [](spc = "failed" /\ raised # "none" => scan_error = raised)
    /\ [][spc = "files" /\ spc' = "failed" /\ raised' # "none" =>
            \A i \in DOMAIN summaries' : summaries'[i].bucket # cur_bucket]_vars
    /\ [][spc = "failed" \/ spc' = "failed" =>
            UNCHANGED <<seen_buckets, listed, scanned, summaries>>]_vars

C24_Witness ==
    /\ mode = "scan_file_types"
    /\ spc = "failed"
    /\ raised = "BucketNotFoundError"
    /\ Len(listed) = 2
    /\ Len(summaries) = 1
    /\ counts # <<>>

\* position of bucket name b in the sequence q of distinct names
Pos(q, b) == CHOOSE i \in DOMAIN q : q[i] = b

\* C25: a fully consumed scan has called list_files once for each bucket
\* whose name the regex finds, in list_buckets order, and for no other
\* bucket; the objects yielded are the matching FileInfo records as
\* list_files produced them, bucket after bucket and in list_files order.
C25_OneListingPerMatchingBucket ==
    mode = "scan" /\ spc = "done" =>
        /\ listed = SelectSeq(seen_buckets, LAMBDA b : matches_regex(b, bucket_pattern))
        /\ \A i, j \in DOMAIN listed : listed[i] = listed[j] => i = j
        /\ \A i \in DOMAIN scanned :
            /\ \E n \in DOMAIN listed : listed[n] = scanned[i].bucket
            /\ \E n \in DOMAIN seen_objects : seen_objects[n] = scanned[i]
        /\ \A i, j \in DOMAIN scanned :
            i < j => Pos(listed, scanned[i].bucket) <= Pos(listed, scanned[j].bucket)
        /\ \E f \in [DOMAIN scanned -> DOMAIN seen_objects] :
            /\ \A i \in DOMAIN scanned : seen_objects[f[i]] = scanned[i]
            /\ \A i, j \in DOMAIN scanned : i < j => f[i] < f[j]
        /\ Len(scanned) = Cardinality({n \in DOMAIN seen_objects :
                /\ matches_glob(seen_objects[n].key, file_pattern)
                /\ seen_objects[n].last_modified.t < before_date.t})

C25_Witness ==
    /\ mode = "scan"
    /\ spc = "done"
    /\ Len(seen_buckets) = 2
    /\ Len(listed) = 1
    /\ Len(scanned) = 2

\* the buckets whose loop over list_files and over the extensions has ended
Complete ==
    IF spc \in {"buckets", "done"} THEN listed
    ELSE SubSeq(listed, 1, Len(listed) - 1)

\* the objects of bucket b modified strictly before the cutoff
Old(b) ==
    {n \in DOMAIN seen_objects :
        /\ seen_objects[n].bucket = b
        /\ seen_objects[n].last_modified.t < before_date.t}

\* the summaries yielded for bucket b
SummariesOf(b) == {i \in DOMAIN summaries : summaries[i].bucket = b}

\* C26: for a bucket scan_file_types is through with, the summaries are the
\* group-by of the bucket's objects modified strictly before the cutoff,
\* keyed by the last dot-suffix of the key's name or by the sentinel: one
\* summary per extension that occurs, none with count 0, count and total
\* size those of the group, the counts adding up to the number of such
\* objects.
C26_GroupByExtension ==
    mode = "scan_file_types" =>
        \A c \in DOMAIN Complete :
            LET b == Complete[c]
                Group(e) == {n \in Old(b) : Ext(seen_objects[n].key) = e}
            IN  /\ \A i \in SummariesOf(b) :
                    /\ summaries[i].file_count = Cardinality(Group(summaries[i].extension))
                    /\ summaries[i].file_count > 0
                    /\ summaries[i].total_size =
                         SumOver(Group(summaries[i].extension),
                                 [n \in DOMAIN seen_objects |-> seen_objects[n].size])
                    /\ \A j \in SummariesOf(b) :
                         summaries[j].extension = summaries[i].extension => i = j
                /\ \A n \in Old(b) :
                    /\ \E i \in SummariesOf(b) :
                         summaries[i].extension = Ext(seen_objects[n].key)
                    /\ seen_objects[n].key = <<"b", ".", "t", ".", "g">> =>
                         \E i \in SummariesOf(b) : summaries[i].extension = <<".", "g">>
                    /\ seen_objects[n].key = <<"d", ".", "x", "/", "M">> =>
                         \E i \in SummariesOf(b) : summaries[i].extension = NoExt
                /\ SumOver(SummariesOf(b), [i \in DOMAIN summaries |-> summaries[i].file_count])
                     = Cardinality(Old(b))

C26_Witness ==
    /\ mode = "scan_file_types"
    /\ spc = "done"
    /\ Len(seen_objects) = 2
    /\ seen_objects[1].key # seen_objects[2].key
    /\ \E i \in DOMAIN summaries :
        /\ summaries[i].extension = NoExt
        /\ summaries[i].file_count = 2
        /\ summaries[i].total_size = 3

\* C27: scan_file_types yields the summaries bucket after bucket in listing
\* order and, within a bucket, in ascending order of the extension; while
\* list_files runs for a bucket no summary of that bucket has been yielded
\* and every earlier matching bucket has all of its summaries already.
C27_SummariesPerBucketSorted ==
    mode = "scan_file_types" =>
        /\ \A i, j \in DOMAIN summaries :
            i < j =>
                IF summaries[i].bucket = summaries[j].bucket
                THEN StrLess(summaries[i].extension, summaries[j].extension)
                ELSE Pos(listed, summaries[i].bucket) < Pos(listed, summaries[j].bucket)
        /\ spc = "files" =>
            /\ SummariesOf(cur_bucket) = {}
            /\ \A c \in 1..(Len(listed) - 1) :
                \A n \in Old(listed[c]) :
                    \E i \in SummariesOf(listed[c]) :
                        summaries[i].extension = Ext(seen_objects[n].key)

C27_Witness ==
    /\ mode = "scan_file_types"
    /\ spc = "files"
    /\ Len(listed) = 2
    /\ Len(summaries) = 2
    /\ summaries[1].bucket = listed[1]
    /\ summaries[2].bucket = listed[1]
    /\ summaries[1].extension = NoExt
    /\ summaries[2].extension = <<".", "g">>

\* object n carries a timezone and the cutoff does not, or the reverse
Mismatch(n) == seen_objects[n].last_modified.aware # before_date.aware

\* C28 (as stated): whenever scan or scan_file_types has taken an object
\* whose last_modified and the cutoff differ in carrying a timezone, it has
\* raised an error.
C28_AnyMismatchRaises ==
    (\E n \in DOMAIN seen_objects : Mismatch(n)) =>
        spc = "failed" /\ scan_error = "TypeError"

\* C28 (amended): whenever the date comparison is reached for such an
\* object, that is for an object whose key matches the glob in scan and for
\* every object of a matching bucket in scan_file_types, the generator has
\* raised TypeError; no such object is yielded or counted.
C28_ComparisonRaises ==
    /\ (\E n \in DOMAIN seen_objects :
            /\ Mismatch(n)
            /\ mode = "scan" => matches_glob(seen_objects[n].key, file_pattern))
        => spc = "failed" /\ scan_error = "TypeError"
    /\ \A i \in DOMAIN scanned :
            scanned[i].last_modified.aware = before_date.aware
    /\ tz_objects # before_date.aware => summaries = <<>> /\ counts = <<>>

C28_Witness ==
    /\ mode = "scan"
    /\ spc = "failed"
    /\ scan_error = "TypeError"
    /\ Len(seen_objects) = 2
    /\ ~matches_glob(seen_objects[1].key, file_pattern)

(***************************************************************************)
(* Properties of SafeDeleter.delete: confirmation and dry run              *)
(***************************************************************************)
\* the generator has ended: exhausted, cancelled, raised or closed
Ended == phase \in {"Done", "Cancelled", "Raised", "Closed"}

\* C29 (as stated): a delete that has ended has prompted exactly once when
\* skip_confirmation is false, whatever the input list and the mode, and
\* never when skip_confirmation is true.
C29_PromptOncePerInvocation ==
    Ended => prompts = IF skip_confirmation THEN 0 ELSE 1

\* C29 (amended): a delete past its confirmation step has prompted exactly
\* once when skip_confirmation is false and the input list is not empty, in
\* live and in dry-run mode; it never prompts when skip_confirmation is true
\* or the input list is empty, and never before the summary is displayed.
C29_PromptOnceUnlessEmpty ==
    /\ phase \in {"Idle", "Summarized"} => prompts = 0
    /\ phase \in {"Confirmed", "Cancelled", "Deleting"} \/ Ended =>
            prompts = IF skip_confirmation \/ files = <<>> THEN 0 ELSE 1
    /\ prompts > 0 => displayed

C29_Witness ==
    /\ phase = "Done"
    /\ dry_run
    /\ ~skip_confirmation
    /\ Len(files) = MaxFiles
    /\ prompts = 1
    /\ Len(yielded) = MaxFiles

\* the slices of B files a bucket's files fall into, B >= 1
RECURSIVE Slices(_, _)
Slices(bf, B) ==
    IF bf = <<>> THEN <<>>
    ELSE <<SubSeq(bf, 1, Min(B, Len(bf)))>> \o Slices(SubSeq(bf, Min(B, Len(bf)) + 1, Len(bf)), B)

\* the batches of a list of bucket groups, bucket after bucket
RECURSIVE BatchesOf(_, _)
BatchesOf(gs, B) ==
    IF gs = <<>> \/ B <= 0 THEN <<>>
    ELSE LET sl == Slices(Head(gs).files, B)
         IN  [i \in DOMAIN sl |-> [bucket |-> Head(gs).bucket, keys |-> Keys(sl[i])]]
             \o BatchesOf(Tail(gs), B)

IsPrefix(p, q) == Len(p) <= Len(q) /\ SubSeq(q, 1, Len(p)) = p

\* C30: the batches a delete processes depend on the input, the batch size
\* and the confirmation only, not on the mode: they are the slices of the
\* bucket groups of the input, all of them once the generator is exhausted;
\* a live run passes exactly these to provider.batch_delete, a dry run
\* synthesizes outcomes for exactly these and calls nothing; summary and
\* confirmation are the same in both modes.
C30_DryRunSameBatches ==
    LET expected == BatchesOf(GroupFiles(files), EffBatch(batch_size))
    IN  /\ IsPrefix(batches, expected)
        /\ phase = "Done" /\ files # <<>> => batches = expected
        /\ phase \in {"Idle", "Summarized", "Confirmed", "Cancelled"} => batches = <<>>
        /\ calls = IF dry_run THEN <<>> ELSE batches
        /\ phase \in {"Summarized", "Confirmed", "Cancelled", "Deleting"} =>
                summary = create_summary(files) /\ displayed
        /\ phase \in {"Confirmed", "Cancelled"} => prompts = 1 /\ ~skip_confirmation

C30_Witness ==
    /\ phase = "Done"
    /\ dry_run
    /\ Len(files) = MaxFiles
    /\ Len(batches) = 2
    /\ Len(batches[1].keys) = 2
    /\ batches[1].bucket = batches[2].bucket

\* C31: provider.batch_delete is called only when every outcome of the
\* batches before has been yielded, and a delete whose consumer has stopped
\* consuming makes no further call and yields nothing more.
C31_YieldsBatchByBatch ==
    /\ [][calls' # calls =>
            /\ pending = <<>>
            /\ Len(calls') = Len(calls) + 1
            /\ yielded' = yielded]_vars
    /\ [][phase = "Closed" => UNCHANGED <<calls, batches, yielded, pending>>]_vars

C31_Witness ==
    /\ phase = "Closed"
    /\ ~dry_run
    /\ Len(calls) = 1
    /\ Len(yielded) = 1
    /\ Len(BatchesOf(GroupFiles(files), EffBatch(batch_size))) = 3

\* the exception the error taxonomy names for a vendor failure
Taxonomy(v) ==
    CASE v = "AccessDenied" -> "AuthenticationError"
      [] v = "NoSuchBucket" -> "BucketNotFoundError"
      [] v = "429" -> "RateLimitError"
      [] OTHER -> "CloudStorageError"

\* C32: a call of list_buckets, list_files or batch_delete that a vendor
\* failure ended has raised the exception of the taxonomy: access denied
\* as AuthenticationError, no such bucket as BucketNotFoundError, HTTP 429
\* as RateLimitError, anything else as CloudStorageError.
C32_ErrorTaxonomy ==
    ppc \in {"lb_raised", "lf_raised", "bd_raised"} /\ vfail # "none" =>
        perr = Taxonomy(vfail)


\* the client a call for bucket b must talk to: the location list_buckets
\* yielded b with, the configured default when it yielded none
Expected(b) == IF b \in located THEN Location[b] ELSE "default"

\* C33: every request of list_files and of batch_delete goes to the client of
\* the location that list_buckets has yielded the bucket with, also when the
\* call is made while list_buckets is suspended at the yield of that bucket;
\* a bucket never yielded, or yielded without a location, gets the default
C33_RegionOfBucket ==
    /\ ppc \in {"lf_loop", "lf_acquired", "lf_yield"} => client = Expected(lf_bucket)
    /\ ppc = "bd_acquired" => client = Expected(bd_bucket)

C33_Witness ==
    /\ nested
    /\ ppc = "lf_acquired"
    /\ lf_bucket = "b2"
    /\ client = "region-2"
    /\ located = {"b2"}
    /\ lb_yielded = <<"b1", "b2">>

(***************************************************************************)
(* The clean command around SafeDeleter.delete                             *)
(***************************************************************************)
\* clean: results = list(deleter.delete(...)) and the counts it logs
success_count == Cardinality({i \in DOMAIN yielded : yielded[i].success})

failed_count == Len(yielded) - success_count

\* the status clean completes with: the except clauses raise typer.Exit(1)
\* for an exception out of delete; after "operation_completed" the command
\* returns, which is status 0
clean_exit == IF phase = "Raised" THEN 1 ELSE 0

\* C34: a clean whose delete ran to its end with at least one failed
\* DeletionResult completes with a non-zero status
C34_FailedMeansNonZero ==
    phase = "Done" /\ failed_count > 0 => clean_exit # 0

(***************************************************************************)
(* SafeDeleter.create_summary and scanner.create_deletion_summary          *)
(***************************************************************************)
MaxSummaryFiles == 3

SummarySizes == {0, 1, 2}

ProviderTags == {"aliyun", "tencent"}

\* the lists of FileInfo the summary functions are called with
SummaryInputs ==
    SeqsUpTo([bucket : Buckets, key : {1}, size : SummarySizes, provider : ProviderTags],
             MaxSummaryFiles)

SummaryInit ==
    /\ DeleterUnused
    /\ ScannerUnused
    /\ LimiterUnused
    /\ ProviderUnused
    /\ sm_files \in SummaryInputs
    /\ sm_provider \in ProviderTags
    /\ sm_pc = "start"
    /\ sm_summary = NoSummary
    /\ sm_dict = NoSummary

\* summary = deleter.create_summary(files)
CreateSummary ==
    /\ sm_pc = "start"
    /\ sm_summary' = create_summary(sm_files)
    /\ sm_pc' = "summary"
    /\ UNCHANGED <<dvars, svars, rvars, pvars>>
    /\ UNCHANGED <<sm_files, sm_provider, sm_dict>>

\* create_deletion_summary(files, provider) on the same list
CreateDeletionSummary ==
    /\ sm_pc = "summary"
    /\ sm_dict' = create_deletion_summary(sm_files, sm_provider)
    /\ sm_pc' = "both"
    /\ UNCHANGED <<dvars, svars, rvars, pvars>>
    /\ UNCHANGED <<sm_files, sm_provider, sm_summary>>

SummaryNext == CreateSummary \/ CreateDeletionSummary

SpecSummary == SummaryInit /\ [][SummaryNext]_vars

\* the indices of the files of bucket b
IndicesIn(b) == {i \in DOMAIN sm_files : sm_files[i].bucket = b}

\* the sizes of the input, by index
SizeAt == [i \in DOMAIN sm_files |-> sm_files[i].size]

\* C35: the summary create_summary returns has total_files = the length of
\* the list, total_size = the sum of the sizes, in both maps exactly the
\* buckets present with the bucket's count and byte sum (which add up to the
\* totals), provider = the first file's tag or "unknown" for the empty list;
\* create_deletion_summary returns the same totals and maps; the input list
\* is left as it was
C35_SummaryAggregates ==
    /\ [](sm_pc \in {"summary", "both"} =>
            LET present == {sm_files[i].bucket : i \in DOMAIN sm_files}
            IN  /\ sm_summary.total_files = Len(sm_files)
                /\ sm_summary.total_size = SumOver(DOMAIN sm_files, SizeAt)
                /\ DOMAIN sm_summary.files_by_bucket = present
                /\ DOMAIN sm_summary.size_by_bucket = present
                /\ \A b \in present :
                      /\ sm_summary.files_by_bucket[b] = Cardinality(IndicesIn(b))
                      /\ sm_summary.size_by_bucket[b] = SumOver(IndicesIn(b), SizeAt)
                /\ SumOver(present, sm_summary.files_by_bucket) = sm_summary.total_files
                /\ SumOver(present, sm_summary.size_by_bucket) = sm_summary.total_size
                /\ sm_summary.provider =
                      IF sm_files = <<>> THEN "unknown" ELSE sm_files[1].provider)
    /\ [](sm_pc = "both" =>
            /\ sm_dict.total_files = sm_summary.total_files
            /\ sm_dict.total_size = sm_summary.total_size
            /\ sm_dict.files_by_bucket = sm_summary.files_by_bucket
            /\ sm_dict.size_by_bucket = sm_summary.size_by_bucket)
    /\ [][sm_files' = sm_files]_vars

C35_Witness ==
    /\ sm_pc = "both"
    /\ Len(sm_files) = 3
    /\ DOMAIN sm_summary.size_by_bucket = {"b1", "b2"}
    /\ sm_summary.size_by_bucket["b1"] = 3
    /\ sm_summary.files_by_bucket["b1"] = 2
    /\ sm_summary.total_size = 3
    /\ sm_summary.provider # sm_dict.provider

(***************************************************************************)
(* Properties of SafeDeleter.delete: batches and counters                  *)
(***************************************************************************)
\* the keys of a list of batch_delete calls, one after the other
RECURSIVE FlatKeys(_)
FlatKeys(cs) == IF cs = <<>> THEN <<>> ELSE Head(cs).keys \o FlatKeys(Tail(cs))

\* the keys passed for bucket b, in the order they were passed
KeysPassedFor(b) ==
    LET OfBucket(c) == c.bucket = b
    IN  FlatKeys(SelectSeq(calls, OfBucket))

\* C36: a confirmed live delete that has run to completion has passed every
\* input file to batch_delete exactly once, every call holds keys of one
\* bucket only, and the keys of a bucket were passed in input order
C36_BatchesPartition ==
    phase = "Done" /\ ~dry_run =>
        LET flat == FlatKeys(calls)
        IN  /\ Len(flat) = Len(files)
            /\ {flat[i] : i \in DOMAIN flat} = {files[i].key : i \in DOMAIN files}
            /\ \A c \in DOMAIN calls : \A j \in DOMAIN calls[c].keys :
                    files[calls[c].keys[j]].bucket = calls[c].bucket
            /\ \A b \in Buckets :
                    LET ks == KeysPassedFor(b)
                    IN  \A i \in 1..(Len(ks) - 1) : ks[i] < ks[i + 1]

\* C37: when delete has run to completion the counters of "deletion_completed"
\* add up to the number of outcomes yielded, which is the number of input
\* files, and success counts the yielded outcomes with success true
C37_CountersAddUp ==
    phase = "Done" =>
        /\ total_success + total_failed = Len(yielded)
        /\ Len(yielded) = Len(files)
        /\ total_success = success_count

\* C38: the effective batch size lies in 1..1000 whatever integer is
\* configured, so delete never stops on the range step and a completed
\* confirmed delete leaves no group without batches
C38_EffectiveBatchInRange ==
    /\ EffBatch(batch_size) \in 1..MaxKeys
    /\ phase # "Raised"
    /\ phase = "Done" /\ files # <<>> => batches # <<>>

(***************************************************************************)
(* Properties of RateLimiter: a caller waiting for tokens                  *)
(***************************************************************************)
\* thread u is inside acquire, between taking the lock and its return
InAcquireCall(u) == call[u].op = "acquire" /\ tpc[u] \in InLock

\* C39: while a thread is inside acquire, sleeping until tokens have
\* refilled or looping again, no call of another thread succeeds and the
\* balance changes in that thread's own steps only; a thread that arrived
\* meanwhile stays in front of the lock, and the waiting thread leaves
\* acquire only with its tokens granted
C39_WaiterGrantedFirst ==
    [][\A u \in Threads : InAcquireCall(u) =>
          /\ \A t \in Threads \ {u} :
                /\ ~Succeeds(t)
                /\ tpc[t] = "lock" => tpc'[t] = "lock"
          /\ tokens' # tokens => tpc'[u] # tpc[u]
          /\ tpc'[u] \notin InLock => Succeeds(u) /\ tokens' = tokens - call[u].n]_vars

\* an acquire sleeps inside the lock for the tokens it lacks while a
\* try_acquire of another thread, for tokens that are there, is in front of
\* the lock
C39_Witness ==
    \E u, t \in Threads :
        /\ u # t
        /\ InAcquireCall(u)
        /\ tpc[u] = "sleep"
        /\ sleep_left[u] > 0
        /\ tokens = 1
        /\ call[u].n = 2
        /\ tpc[t] = "lock"
        /\ call[t] = [op |-> "try_acquire", n |-> 1]

(***************************************************************************)
(* Properties of BucketScanner: what it asks of the provider               *)
(***************************************************************************)
\* C40: scan and scan_file_types call list_buckets and list_files only: at
\* every point of a scan the provider has received no batch_delete call, so
\* nothing the provider stores has been removed
C40_ScanReadOnly == mode \in {"scan", "scan_file_types"} => calls = <<>>

C40_Witness ==
    /\ mode = "scan"
    /\ spc = "done"
    /\ lb_calls = 1
    /\ Len(listed) = 2
    /\ Len(scanned) = 2
    /\ calls = <<>>
====
